---------------------------- MODULE Spec2Model ----------------------------
(***************************************************************************)
(* A model of the MapleFE table-driven parser (Parser::Parse and below):   *)
(* token buffer, SuccMatch / FailSet caches, the appeal tree, the matcher  *)
(* (TraverseRuleTable and the per-kind traversals), the left-recursion     *)
(* engine, sort-out and WasSucc patching.                                  *)
(*                                                                         *)
(* The parser is single threaded and deterministic.  Every C++ function is *)
(* an operator that takes the parser state as a record `s` and returns the *)
(* state it leaves behind; the boolean a function returns is left in       *)
(* s.ret.  A failed MASSERT stops the program: it is recorded in s.abort   *)
(* and every later operator leaves the state alone.                        *)
(*                                                                         *)
(* Token indices are `unsigned` in the source.  The only wrap that occurs  *)
(* is 0 - 1, so the width is modelled by UIntMax (TLC's integers cannot    *)
(* hold 2^32 - 1).                                                         *)
(***************************************************************************)
EXTENDS Integers, Sequences, FiniteSets, TLC

\* ------------------------------------------------------------------------
\* Bounds of the model
\* ------------------------------------------------------------------------
\* Largest value of the modelled `unsigned` (stands for 2^32 - 1).
UIntMax == 65535
\* Longest single-line input enumerated for the small grammars.
MaxLen == 4
\* Largest number of binary operators in an enumerated expression statement.
MaxOps == 2

Inc(x) == IF x = UIntMax THEN 0 ELSE x + 1
Dec(x) == IF x = 0 THEN UIntMax ELSE x - 1

\* ------------------------------------------------------------------------
\* Sequence helpers
\* ------------------------------------------------------------------------
Range(f) == {f[i] : i \in DOMAIN f}
InSeq(x, q) == \E i \in DOMAIN q : q[i] = x

RECURSIVE SeqMax(_)
SeqMax(q) == IF Len(q) = 0 THEN 0
             ELSE LET m == SeqMax(Tail(q)) IN IF Head(q) > m THEN Head(q) ELSE m

\* All sequences over alphabet A of length exactly n / at most n.
RECURSIVE SeqsOfLen(_, _)
SeqsOfLen(A, n) == IF n = 0 THEN {<<>>}
                   ELSE {<<a>> \o q : a \in A, q \in SeqsOfLen(A, n - 1)}
SeqsUpTo(A, n) == UNION {SeqsOfLen(A, k) : k \in 0..n}

\* ------------------------------------------------------------------------
\* Tokens
\* ------------------------------------------------------------------------
\* System tokens (keywords, operators, separators) are compared by identity;
\* "id" is an identifier token, "lit" a literal token, "ws" a whitespace
\* separator and "cm" a comment.
IsIdentifier(t) == t = "id"
IsLiteral(t)    == t = "lit"
IsWhiteSpace(t) == t = "ws"
IsComment(t)    == t = "cm"

\* ------------------------------------------------------------------------
\* Rule tables (the generated gen_*.cpp tables)
\* ------------------------------------------------------------------------
TblIdentifier == 1
TblLiteral    == 2

Tok(t) == [mType |-> "DT_Token",    mToken |-> t,  mEntry |-> 0]
Sub(r) == [mType |-> "DT_Subtable", mToken |-> "", mEntry |-> r]
Chr    == [mType |-> "DT_Char",     mToken |-> "", mEntry |-> 0]

\* An action: its id and the 1-based element indices it takes.
Act(id, elems) == [mId |-> id, mElems |-> elems]

RT(type, data, props, acts) ==
  [mType |-> type, mData |-> data, mProperties |-> props, mActions |-> acts]

Leaf == RT("ET_Data", <<>>, {}, <<>>)

\* One-line files over an alphabet.
OneLine(q) == <<q>>
Lines1(A, n) == {OneLine(q) : q \in SeqsUpTo(A, n)}

\* Grammar "cat": S : R 'x' 'z' ; R : A 'y' ; A : 'x' | 'x' 'y' 'x'
GCat ==
  [name   |-> "cat",
   rules  |-> << Leaf, Leaf,
                 RT("ET_Concatenate", <<Sub(4), Tok("x"), Tok("z")>>, {}, <<>>),
                 RT("ET_Concatenate", <<Sub(5), Tok("y")>>, {}, <<>>),
                 RT("ET_Oneof", <<Tok("x"), Sub(6)>>, {}, <<>>),
                 RT("ET_Concatenate", <<Tok("x"), Tok("y"), Tok("x")>>, {}, <<>>) >>,
   top    |-> <<3>>,
   la     |-> << {"LA_Identifier"}, {"LA_Literal"}, {"x"}, {"x"}, {"x"}, {"x"} >>,
   lead   |-> {},
   groups |-> << >>,
   gLeftRecursions |-> << >>,
   files  |-> Lines1({"x", "y", "z"}, MaxLen)]

\* Grammar "opt": T : Z 'c' | Z 'd' ZEROORONE('c') ;
\*                Z : ZEROORONE('a') ZEROORMORE('b')
GOpt ==
  [name   |-> "opt",
   rules  |-> << Leaf, Leaf,
                 RT("ET_Oneof", <<Sub(4), Sub(5)>>, {}, <<>>),
                 RT("ET_Concatenate", <<Sub(6), Tok("c")>>, {}, <<Act(1, <<1>>)>>),
                 RT("ET_Concatenate", <<Sub(6), Tok("d"), Sub(9)>>, {}, <<>>),
                 RT("ET_Concatenate", <<Sub(7), Sub(8)>>, {}, <<>>),
                 RT("ET_Zeroorone", <<Tok("a")>>, {}, <<>>),
                 RT("ET_Zeroormore", <<Tok("b")>>, {}, <<>>),
                 RT("ET_Zeroorone", <<Tok("c")>>, {}, <<>>) >>,
   top    |-> <<3>>,
   la     |-> << {"LA_Identifier"}, {"LA_Literal"}, {"a", "b"}, {"a", "b"},
                 {"a", "b"}, {"a", "b"}, {"a"}, {"b"}, {"c"} >>,
   lead   |-> {},
   groups |-> << >>,
   gLeftRecursions |-> << >>,
   files  |-> Lines1({"a", "b", "c", "d"}, MaxLen)
              \cup {<<<<"ws", "cm">>, <<"a", "ws", "c">>, <<"cm">>, <<"b", "d">>>>,
                    <<<<"ws">>, <<"cm", "ws">>>>,
                    <<<<"a", "c">>, <<"a", "d", "c">>, <<"c">>, <<"b", "c">>>>,
                    <<<<"b", "c">>, <<"a", "b", "b", "d">>>>}]

\* Grammar "single": S : P 'z' ; P : ONEOF(A, B, C) with attr.property Single ;
\*                   A : 'x' 'x' ; B : 'x' ; C : 'x' 'y'
GSingle ==
  [name   |-> "single",
   rules  |-> << Leaf, Leaf,
                 RT("ET_Concatenate", <<Sub(4), Tok("z")>>, {}, <<>>),
                 RT("ET_Oneof", <<Sub(5), Sub(6), Sub(7)>>, {"RP_Single"}, <<>>),
                 RT("ET_Concatenate", <<Tok("x"), Tok("x")>>, {}, <<>>),
                 RT("ET_Concatenate", <<Tok("x")>>, {}, <<>>),
                 RT("ET_Concatenate", <<Tok("x"), Tok("y")>>, {}, <<>>) >>,
   top    |-> <<3>>,
   la     |-> << {"LA_Identifier"}, {"LA_Literal"}, {"x"}, {"x"}, {"x"}, {"x"}, {"x"} >>,
   lead   |-> {},
   groups |-> << >>,
   gLeftRecursions |-> << >>,
   files  |-> Lines1({"x", "y", "z"}, MaxLen)]

\* Grammar "zom": S : ZM 'z' ; ZM : ZEROORMORE(C) ; C : 'a' | AA ; AA : 'a' 'a'
GZom ==
  [name   |-> "zom",
   rules  |-> << Leaf, Leaf,
                 RT("ET_Concatenate", <<Sub(4), Tok("z")>>, {}, <<>>),
                 RT("ET_Zeroormore", <<Sub(5)>>, {}, <<>>),
                 RT("ET_Oneof", <<Tok("a"), Sub(6)>>, {}, <<>>),
                 RT("ET_Concatenate", <<Tok("a"), Tok("a")>>, {}, <<>>) >>,
   top    |-> <<3>>,
   la     |-> << {"LA_Identifier"}, {"LA_Literal"}, {"a", "z"}, {"a"}, {"a"}, {"a"} >>,
   lead   |-> {},
   groups |-> << >>,
   gLeftRecursions |-> << >>,
   files  |-> Lines1({"a", "z"}, MaxLen) \cup {<<<<"a", "a", "a", "a", "z">>>>}]

\* The expressions id (op id)^k, one per line, with and without the ';'.
RECURSIVE Chains(_, _)
Chains(Ops, k) ==
  IF k = 0 THEN {<<"id">>}
  ELSE {c \o <<op, "id">> : c \in Chains(Ops, k - 1), op \in Ops}

ChainFiles(Ops, n) ==
  LET chains == UNION {Chains(Ops, k) : k \in 0..n} IN
  {OneLine(c) : c \in chains} \cup {OneLine(c \o <<";">>) : c \in chains}

\* Grammar "add": S : Add ';' ; Add : Identifier | Add '+' Identifier
\* Add is the lead node of the recursion group {Add, Add_sub1}.
GAdd ==
  [name   |-> "add",
   rules  |-> << Leaf, Leaf,
                 RT("ET_Concatenate", <<Sub(4), Tok(";")>>, {}, <<>>),
                 RT("ET_Oneof", <<Sub(TblIdentifier), Sub(5)>>, {}, <<>>),
                 RT("ET_Concatenate", <<Sub(4), Tok("+"), Sub(TblIdentifier)>>, {},
                    <<Act(1, <<1, 3>>)>>) >>,
   top    |-> <<3>>,
   la     |-> << {"LA_Identifier"}, {"LA_Literal"}, {"LA_Identifier"},
                 {"LA_Identifier"}, {"LA_Identifier"} >>,
   lead   |-> {4},
   groups |-> << {4, 5} >>,
   gLeftRecursions |-> <<[mRuleTable |-> 4, mCircles |-> << <<2, 1, 0>> >>]>>,
   files  |-> ChainFiles({"+"}, MaxOps)
              \cup {<<<<"id", "+", "id", ";">>, <<"id", ";">>>>,
                    <<<<"id", "+", ";">>>>, <<<<"+", "id", ";">>>>}]

\* Grammar "expr": S : E ';' ; E : Identifier | E '+' Identifier | E '*' Identifier
\* E is the lead node of the recursion group {E, E_add, E_mul}.
GExpr ==
  [name   |-> "expr",
   rules  |-> << Leaf, Leaf,
                 RT("ET_Concatenate", <<Sub(4), Tok(";")>>, {}, <<>>),
                 RT("ET_Oneof", <<Sub(TblIdentifier), Sub(5), Sub(6)>>, {}, <<>>),
                 RT("ET_Concatenate", <<Sub(4), Tok("+"), Sub(TblIdentifier)>>, {},
                    <<Act(1, <<1, 3>>)>>),
                 RT("ET_Concatenate", <<Sub(4), Tok("*"), Sub(TblIdentifier)>>, {},
                    <<Act(1, <<1, 3>>)>>) >>,
   top    |-> <<3>>,
   la     |-> << {"LA_Identifier"}, {"LA_Literal"}, {"LA_Identifier"},
                 {"LA_Identifier"}, {"LA_Identifier"}, {"LA_Identifier"} >>,
   lead   |-> {4},
   groups |-> << {4, 5, 6} >>,
   gLeftRecursions |-> <<[mRuleTable |-> 4, mCircles |-> << <<2, 1, 0>>, <<2, 2, 0>> >>]>>,
   files  |-> ChainFiles({"+", "*"}, MaxOps)
              \cup {<<<<"id", "+", "id", "+", "id", "*", "id", ";">>>>}]

\* Grammar "share": S1 : E ';' ; S2 : X '!' ; E : Identifier | X | Y ;
\* X : P '+' Identifier ; Y : P '*' Identifier ; P : E | Literal
\* E is the lead node of the recursion group {E, X, Y, P}; P is on both of its
\* circles, and X is also used by S2, outside the group.
GShare ==
  [name   |-> "share",
   rules  |-> << Leaf, Leaf,
                 RT("ET_Concatenate", <<Sub(5), Tok(";")>>, {}, <<>>),
                 RT("ET_Concatenate", <<Sub(6), Tok("!")>>, {}, <<>>),
                 RT("ET_Oneof", <<Sub(TblIdentifier), Sub(6), Sub(7)>>, {}, <<>>),
                 RT("ET_Concatenate", <<Sub(8), Tok("+"), Sub(TblIdentifier)>>, {}, <<>>),
                 RT("ET_Concatenate", <<Sub(8), Tok("*"), Sub(TblIdentifier)>>, {}, <<>>),
                 RT("ET_Oneof", <<Sub(5), Sub(TblLiteral)>>, {}, <<>>) >>,
   top    |-> <<3, 4>>,
   la     |-> << {"LA_Identifier"}, {"LA_Literal"},
                 {"LA_Identifier", "LA_Literal"}, {"LA_Identifier", "LA_Literal"},
                 {"LA_Identifier", "LA_Literal"}, {"LA_Identifier", "LA_Literal"},
                 {"LA_Identifier", "LA_Literal"}, {"LA_Identifier", "LA_Literal"} >>,
   lead   |-> {5},
   groups |-> << {5, 6, 7, 8} >>,
   gLeftRecursions |-> <<[mRuleTable |-> 5,
                          mCircles |-> << <<3, 1, 0, 0>>, <<3, 2, 0, 0>> >>]>>,
   files  |-> {OneLine(q \o <<e>>) : q \in Chains({"+", "*"}, 0) \cup Chains({"+", "*"}, 1),
                                     e \in {";", "!"}}
              \cup {<<<<"lit", "+", "id", ";">>>>, <<<<"lit", "!">>>>}]

\* Grammar "nola": S : A ';' ; A : 'x' | 'y', with no lookahead entry for A.
GNoLA ==
  [name   |-> "nola",
   rules  |-> << Leaf, Leaf,
                 RT("ET_Concatenate", <<Sub(4), Tok(";")>>, {}, <<>>),
                 RT("ET_Oneof", <<Tok("x"), Tok("y")>>, {}, <<>>) >>,
   top    |-> <<3>>,
   la     |-> << {"LA_Identifier"}, {"LA_Literal"}, {"x", "y"}, {} >>,
   lead   |-> {},
   groups |-> << >>,
   gLeftRecursions |-> << >>,
   files  |-> Lines1({"x", ";"}, 2)]

\* Grammar "zero": S : Z 'c' ; Z : ZEROORONE('a') ZEROORMORE('b'); the token
\* 'c' may start S and Z, as Z may match nothing.
GZero ==
  [name   |-> "zero",
   rules  |-> << Leaf, Leaf,
                 RT("ET_Concatenate", <<Sub(4), Tok("c")>>, {}, <<>>),
                 RT("ET_Concatenate", <<Sub(5), Sub(6)>>, {}, <<>>),
                 RT("ET_Zeroorone", <<Tok("a")>>, {}, <<>>),
                 RT("ET_Zeroormore", <<Tok("b")>>, {}, <<>>) >>,
   top    |-> <<3>>,
   la     |-> << {"LA_Identifier"}, {"LA_Literal"}, {"a", "b", "c"}, {"a", "b", "c"},
                 {"a"}, {"b"} >>,
   lead   |-> {},
   groups |-> << >>,
   gLeftRecursions |-> << >>,
   files  |-> Lines1({"a", "b", "c"}, 3)]

\* Grammar "amb": S : P 'z' ; P : B | A | C ; B : 'x' ; A : 'x' 'x' ; C : 'x' 'x',
\* where two alternatives of P reach the same end.
GAmb ==
  [name   |-> "amb",
   rules  |-> << Leaf, Leaf,
                 RT("ET_Concatenate", <<Sub(4), Tok("z")>>, {}, <<>>),
                 RT("ET_Oneof", <<Sub(5), Sub(6), Sub(7)>>, {}, <<>>),
                 RT("ET_Concatenate", <<Tok("x")>>, {}, <<>>),
                 RT("ET_Concatenate", <<Tok("x"), Tok("x")>>, {}, <<>>),
                 RT("ET_Concatenate", <<Tok("x"), Tok("x")>>, {}, <<>>) >>,
   top    |-> <<3>>,
   la     |-> << {"LA_Identifier"}, {"LA_Literal"}, {"x"}, {"x"}, {"x"}, {"x"}, {"x"} >>,
   lead   |-> {},
   groups |-> << >>,
   gLeftRecursions |-> << >>,
   files  |-> Lines1({"x", "z"}, 3)]

\* Grammar "two": S : P Q 'z' ; P : 'x' | XX ; Q : 'x' | XX ; XX : 'x' 'x',
\* where Q is attempted from the two ends of P and reaches one end twice.
GTwo ==
  [name   |-> "two",
   rules  |-> << Leaf, Leaf,
                 RT("ET_Concatenate", <<Sub(4), Sub(5), Tok("z")>>, {}, <<>>),
                 RT("ET_Oneof", <<Tok("x"), Sub(6)>>, {}, <<>>),
                 RT("ET_Oneof", <<Tok("x"), Sub(6)>>, {}, <<>>),
                 RT("ET_Concatenate", <<Tok("x"), Tok("x")>>, {}, <<>>) >>,
   top    |-> <<3>>,
   la     |-> << {"LA_Identifier"}, {"LA_Literal"}, {"x"}, {"x"}, {"x"}, {"x"} >>,
   lead   |-> {},
   groups |-> << >>,
   gLeftRecursions |-> << >>,
   files  |-> Lines1({"x", "z"}, 4)]

\* Grammar "dup": S : P P 'z' ; P : 'x', whose action takes the two P
\* (elements 1 and 2).
GDup ==
  [name   |-> "dup",
   rules  |-> << Leaf, Leaf,
                 RT("ET_Concatenate", <<Sub(4), Sub(4), Tok("z")>>, {},
                    <<Act(1, <<1, 2>>)>>),
                 RT("ET_Concatenate", <<Tok("x")>>, {}, <<>>) >>,
   top    |-> <<3>>,
   la     |-> << {"LA_Identifier"}, {"LA_Literal"}, {"x"}, {"x"} >>,
   lead   |-> {},
   groups |-> << >>,
   gLeftRecursions |-> << >>,
   files  |-> Lines1({"x", "z"}, 3)]

\* Grammar "assign": S : Identifier '=' Identifier, whose action takes the
\* left side (element 1) and the right side (element 3).
GAssign ==
  [name   |-> "assign",
   rules  |-> << Leaf, Leaf,
                 RT("ET_Concatenate",
                    <<Sub(TblIdentifier), Tok("="), Sub(TblIdentifier)>>, {},
                    <<Act(1, <<1, 3>>)>>) >>,
   top    |-> <<3>>,
   la     |-> << {"LA_Identifier"}, {"LA_Literal"}, {"LA_Identifier"} >>,
   lead   |-> {},
   groups |-> << >>,
   gLeftRecursions |-> << >>,
   files  |-> Lines1({"id", "="}, 3)
              \cup {<<<<"id", "=", "id">>, <<"id", "=", "id">>>>}]

Grammars == {GCat, GOpt, GAdd, GExpr, GAssign, GSingle, GZom, GShare, GNoLA, GZero,
             GAmb, GTwo, GDup}

\* ------------------------------------------------------------------------
\* The program: which grammar was generated in, and which file is parsed
\* ------------------------------------------------------------------------
VARIABLES
  grammar,        \* the generated rule tables (gTopRules, gLookAheadTable, ...)
  file,           \* the source file: a sequence of lines of tokens
  pc,             \* where Parser::Parse stands
  mCurToken,      \* Parser::mCurToken
  mEndOfFile,     \* Parser::mEndOfFile
  mActiveTokens,  \* Parser::mActiveTokens
  mLine,          \* the lexer: number of lines of `file` already lexed
  gFailed,        \* gFailed[rule]: the vector of failed start tokens
  gSucc,          \* gSucc[rule]: SuccMatch, start token -> nodes, matches, done
  mAppealNodes,   \* Parser::mAppealNodes; node 1 is mRootNode
  gSuccTokens,    \* gSuccTokens[0 .. gSuccTokensNum-1]
  calls,          \* trace: one record per return of TraverseRuleTable
  recs,           \* trace: one record per finished recursion traversal
  begun,          \* trace: the parser state at the start of each construct
  out,            \* what was written to std::cout
  mTrees,         \* gModule.mTrees
  mRoundsOfPatching, \* Parser::mRoundsOfPatching
  parseResult,    \* what Parser::Parse returned: "none", "true" or "false"
  abort,          \* the MASSERT that stopped the program, or ""
  mRecursionAll,  \* Parser::mRecursionAll: the Recursion built per left recursion
  mRecDetector    \* the RecDetector that runs on the rule tables before any parser

vars == <<grammar, file, pc, mCurToken, mEndOfFile, mActiveTokens, mLine,
          gFailed, gSucc, mAppealNodes, gSuccTokens, calls, recs, begun, out,
          mTrees, mRoundsOfPatching, parseResult, abort, mRecursionAll,
          mRecDetector>>

\* A RecDetector as constructed: nothing done, nothing in process, no tree, no
\* recursion.  top counts the top tables Detect() has gone through, and
\* traversed lists the rule tables whose children were looked into.
NoDetector ==
  [mDone |-> <<>>, mInProcess |-> <<>>, mTree |-> <<>>, mRecursions |-> <<>>,
   mRule2Recursions |-> <<>>, top |-> 0, traversed |-> <<>>]

RuleTableNum == Len(grammar.rules)
Rule(r)      == grammar.rules[r]

\* The parser state as one record, threaded through the operators below.
\* mRecStack and the work list to_be_sorted are empty whenever no traversal
\* or sort-out is running; ret and num hold the value the last function
\* returned.
St ==
  [mCurToken |-> mCurToken, mEndOfFile |-> mEndOfFile,
   mActiveTokens |-> mActiveTokens, mLine |-> mLine, gFailed |-> gFailed,
   gSucc |-> gSucc, mAppealNodes |-> mAppealNodes, gSuccTokens |-> gSuccTokens,
   mRecStack |-> <<>>, to_be_sorted |-> <<>>, calls |-> calls, recs |-> recs,
   abort |-> abort, snap |-> <<>>, ret |-> FALSE, num |-> 0, l |-> <<>>]

\* MASSERT compiled out: the program goes on as if the condition held.
NoMassert(s, msg) == s

\* MASSERT(cond): the program stops at the first assertion that fails; snap
\* keeps the state it stopped in.
Massert(s, msg) ==
  IF s.abort = "" THEN [s EXCEPT !.abort = msg, !.ret = FALSE, !.snap = s] ELSE s
Ok(s) == s.abort = ""

\* ------------------------------------------------------------------------
\* Token buffer
\* ------------------------------------------------------------------------
Valuable(line) == SelectSeq(line, LAMBDA t : ~IsWhiteSpace(t) /\ ~IsComment(t))

\* The first line after line k holding a valuable token, or 0.
RECURSIVE NextValuableLine(_, _)
NextValuableLine(f, k) ==
  IF k >= Len(f) THEN 0
  ELSE IF Len(Valuable(f[k + 1])) > 0 THEN k + 1
  ELSE NextValuableLine(f, k + 1)

LexOneLine(s) ==
  IF s.mCurToken < Len(s.mActiveTokens)
  THEN [s EXCEPT !.num = Len(s.mActiveTokens) - s.mCurToken]
  ELSE LET k == NextValuableLine(file, s.mLine) IN
       IF k = 0
       THEN [s EXCEPT !.mLine = Len(file), !.num = 0]
       ELSE [s EXCEPT !.mLine = k,
                      !.mActiveTokens = @ \o Valuable(file[k]),
                      !.num = Len(Valuable(file[k]))]

MoveCurToken(s) ==
  LET s1 == [s EXCEPT !.mCurToken = Inc(@)] IN
  IF s1.mCurToken = Len(s1.mActiveTokens)
  THEN LET s2 == LexOneLine(s1) IN
       IF s2.num = 0 THEN [s2 EXCEPT !.mEndOfFile = TRUE] ELSE s2
  ELSE s1

\* GetActiveToken(i) asserts i < mActiveTokens.size().
InBound(s, i) == i < Len(s.mActiveTokens)
GetActiveToken(s, i) == s.mActiveTokens[i + 1]

\* ------------------------------------------------------------------------
\* FailSet
\* ------------------------------------------------------------------------
\* A ParseStmt that leaves the FailSet of the construct before in place.
KeepFailed(s) == s

ClearFailed(s) == [s EXCEPT !.gFailed = [r \in 1..RuleTableNum |-> <<>>]]

AddFailed(s, table, token) == [s EXCEPT !.gFailed[table] = Append(@, token)]

\* Erases the first element equal to x, as vector::erase(it) does.
RECURSIVE EraseFirst(_, _)
EraseFirst(q, x) ==
  IF Len(q) = 0 THEN q
  ELSE IF Head(q) = x THEN Tail(q)
  ELSE <<Head(q)>> \o EraseFirst(Tail(q), x)

ResetFailed(s, table, token) == [s EXCEPT !.gFailed[table] = EraseFirst(@, token)]

WasFailed(s, table, token) == InSeq(token, s.gFailed[table])

\* ------------------------------------------------------------------------
\* SuccMatch (two Guamian containers keyed by the start token)
\* ------------------------------------------------------------------------
\* Guamian::AddElem: no duplicates, the new element becomes the head.
GuamianAddElem(q, x) == IF InSeq(x, q) THEN q ELSE <<x>> \o q
GuamianRemoveElem(q, x) == EraseFirst(q, x)

RECURSIVE GuamianAddAll(_, _)
GuamianAddAll(q, xs) ==
  IF Len(xs) = 0 THEN q ELSE GuamianAddAll(GuamianAddElem(q, Head(xs)), Tail(xs))

NewKnob == [nodes |-> <<>>, matches |-> <<>>, done |-> FALSE]

ClearSucc(s) == [s EXCEPT !.gSucc = [r \in 1..RuleTableNum |-> <<>>]]

\* SuccMatch::GetStartToken
GetStartToken(s, table, t) == t \in DOMAIN s.gSucc[table]

\* SuccMatch::AddStartToken
AddStartToken(s, table, t) ==
  IF GetStartToken(s, table, t) THEN s
  ELSE [s EXCEPT !.gSucc[table] =
          [k \in DOMAIN @ \cup {t} |-> IF k \in DOMAIN @ THEN @[k] ELSE NewKnob]]

SuccMatchIsDone(s, table, t) == s.gSucc[table][t].done
SuccMatchSetIsDone(s, table, t) == [s EXCEPT !.gSucc[table][t].done = TRUE]

\* ------------------------------------------------------------------------
\* Appeal nodes.  A node is named by its index in mAppealNodes; 0 is NULL.
\* ------------------------------------------------------------------------
AppealNode ==
  [mIsTable |-> TRUE, mTable |-> 0, mToken |-> "", mStartIndex |-> 0,
   mMatches |-> <<>>, mAfter |-> "AppealStatus_NA", mParent |-> 0,
   mChildren |-> <<>>, mSortedChildren |-> <<>>, mFinalMatch |-> 0,
   mSorted |-> FALSE, mSimplifiedIndex |-> 0,
   \* not a field of the source: the trace of TraverseRuleTable's entry
   mPre |-> [after |-> "", is_done |-> FALSE, group_done |-> FALSE, rec_tra |-> 0,
             instance |-> "", node_visited |-> FALSE, lead_visited |-> FALSE,
             tokens |-> <<>>]]

Node(s, n) == s.mAppealNodes[n]

SuccStatus == {"Succ", "SuccWasSucc", "SuccStillWasSucc"}
FailStatus == {"FailWasFailed", "FailNotIdentifier", "FailNotLiteral",
               "FailChildrenFailed", "Fail2ndOf1st", "FailLookAhead"}

IsSucc(node) == node.mAfter \in SuccStatus
IsFail(node) == node.mAfter \in FailStatus
IsNA(node)   == node.mAfter = "AppealStatus_NA"
IsTable(node) == node.mIsTable
IsToken(node) == ~node.mIsTable

FindMatch(node, m) == InSeq(m, node.mMatches)

\* AppealNode::AddMatch on node n
AddMatch(s, n, m) ==
  IF FindMatch(Node(s, n), m) THEN s
  ELSE [s EXCEPT !.mAppealNodes[n].mMatches = Append(@, m)]

RECURSIVE AddMatches(_, _, _)
AddMatches(s, n, ms) ==
  IF Len(ms) = 0 THEN s ELSE AddMatches(AddMatch(s, n, Head(ms)), n, Tail(ms))

LongestMatch(node) == SeqMax(node.mMatches)

SetAfter(s, n, status) == [s EXCEPT !.mAppealNodes[n].mAfter = status]

\* new AppealNode(); mAppealNodes.push_back(...): the new node is Len + 1.
NewNodeId(s) == Len(s.mAppealNodes) + 1
PushNode(s, node) == [s EXCEPT !.mAppealNodes = Append(@, node)]
AddChild(s, parent, child) ==
  [s EXCEPT !.mAppealNodes[parent].mChildren = Append(@, child)]

\* AppealNode::CopyMatch
CopyMatch(s, n, another) ==
  LET s1 == AddMatches(s, n, Node(s, another).mMatches) IN
  IF IsFail(Node(s1, n)) \/ IsNA(Node(s1, n))
  THEN SetAfter(s1, n, Node(s1, another).mAfter)
  ELSE s1

\* Parser::UpdateSuccInfo: SuccMatch::AddStartToken, AddSuccNode, AddMatch.
UpdateSuccInfo(s, curr_token, n) ==
  LET node == Node(s, n)
      rt   == node.mTable
  IN IF ~IsTable(node) THEN Massert(s, "UpdateSuccInfo: node->IsTable()")
     ELSE IF curr_token # node.mStartIndex
     THEN Massert(s, "AddSuccNode: knob key == n->GetStartIndex()")
     ELSE LET s1 == AddStartToken(s, rt, curr_token)
              s2 == [s1 EXCEPT
                       !.gSucc[rt][curr_token].nodes = GuamianAddElem(@, n),
                       !.gSucc[rt][curr_token].matches =
                          GuamianAddAll(GuamianAddAll(@, node.mMatches), s.gSuccTokens)]
          IN AddMatches(s2, n, s.gSuccTokens)

\* Parser::RemoveSuccNode
RemoveSuccNode(s, curr_token, n) ==
  LET rt == Node(s, n).mTable IN
  IF ~GetStartToken(s, rt, curr_token) THEN s
  ELSE [s EXCEPT !.gSucc[rt][curr_token].nodes = GuamianRemoveElem(@, n)]

\* ------------------------------------------------------------------------
\* Recursion tables (gLeftRecursions, gGroup2Rule) and the recursion stack
\* ------------------------------------------------------------------------
\* The group a rule table belongs to, or 0.
FindRecursionGroup(rule_table) ==
  IF \E g \in DOMAIN grammar.groups : rule_table \in grammar.groups[g]
  THEN CHOOSE g \in DOMAIN grammar.groups : rule_table \in grammar.groups[g]
  ELSE 0

IsLeadNode(rule_table) == rule_table \in grammar.lead

\* The index in mRecStack of the traversal of (group, start token), or 0.
FindRecStack(s, group_id, start_token) ==
  IF \E i \in DOMAIN s.mRecStack :
       s.mRecStack[i].mGroupId = group_id /\ s.mRecStack[i].mStartToken = start_token
  THEN CHOOSE i \in DOMAIN s.mRecStack :
       s.mRecStack[i].mGroupId = group_id /\ s.mRecStack[i].mStartToken = start_token
  ELSE 0

LeadNodeVisited(s, rec_tra, rt) == rt \in s.mRecStack[rec_tra].mVisitedLeadNodes
RecursionNodeVisited(s, rec_tra, rt) ==
  rt \in s.mRecStack[rec_tra].mVisitedRecursionNodes
AddVisitedRecursionNode(s, rec_tra, rt) ==
  [s EXCEPT !.mRecStack[rec_tra].mVisitedRecursionNodes = @ \cup {rt}]
AddAppealPoint(s, rec_tra, n) ==
  [s EXCEPT !.mRecStack[rec_tra].mAppealPoints = Append(@, n)]

\* ------------------------------------------------------------------------
\* Lookahead
\* ------------------------------------------------------------------------
LookAheadFail(s, rule_table, token) ==
  LET curr_token == GetActiveToken(s, token)
      latable    == grammar.la[rule_table]
  IN ~ \E la \in latable :
         \/ la = "LA_Identifier" /\ IsIdentifier(curr_token)
         \/ la = "LA_Literal" /\ IsLiteral(curr_token)
         \/ la \notin {"LA_Identifier", "LA_Literal", "LA_Char", "LA_String"}
            /\ la = curr_token

\* The trace record of one return of TraverseRuleTable.
Both(s) ==
  \E r \in 1..RuleTableNum : \E t \in DOMAIN s.gSucc[r] : WasFailed(s, r, t)

Exit(s, rule_table, saved, n, found) ==
  CASE s.abort # "" -> s
    [] OTHER ->
       [s EXCEPT !.ret = found,
                 !.calls = Append(@, [rule |-> rule_table, start |-> saved,
                                      ret |-> found, cur |-> s.mCurToken,
                                      M |-> IF found THEN s.gSuccTokens ELSE <<>>,
                                      node |-> n, eof |-> s.mEndOfFile,
                                      both |-> Both(s),
                                      after |-> IF n = 0 THEN ""
                                                ELSE s.mAppealNodes[n].mAfter,
                                      failed |-> WasFailed(s, rule_table, saved)])]

\* ------------------------------------------------------------------------
\* The matcher.  In every CASE below the arms are tried in the order written,
\* as the if / else-if chain of the source is; a state that holds a failed
\* MASSERT is handed back as it is by TraverseRuleTable and TraverseTableData,
\* so nothing is matched after the program stopped.
\* ------------------------------------------------------------------------
RECURSIVE TraverseRuleTable(_, _, _)
RECURSIVE TraverseRuleTableRegular(_, _, _)
RECURSIVE TraverseTableData(_, _, _)
RECURSIVE TraverseOneof(_, _, _)
RECURSIVE TraverseOneofLoop(_, _, _, _, _)
RECURSIVE TraverseConcatenate(_, _, _)
RECURSIVE TraverseConcatenateLoop(_, _, _, _, _)
RECURSIVE TraverseConcatenatePrev(_, _, _, _, _, _, _)
RECURSIVE TraverseZeroormore(_, _, _)
RECURSIVE TraverseZeroormoreLoop(_, _, _, _)
RECURSIVE TraverseZeroormorePrev(_, _, _, _, _, _)
RECURSIVE TraverseZeroorone(_, _, _)
RECURSIVE TraverseLeadNode(_, _, _)
RECURSIVE FindRestInstances(_, _)

TraverseRuleTablePre(s, appeal) ==
  LET rule_table == Node(s, appeal).mTable
      saved      == s.mCurToken
  IN IF GetStartToken(s, rule_table, saved)
     THEN IF WasFailed(s, rule_table, saved)
          THEN Massert(s, "TraverseRuleTablePre: !WasFailed(rule_table, mCurToken)")
          ELSE LET knob == s.gSucc[rule_table][saved]
                   top  == SeqMax(knob.matches)
                   s1   == AddMatches([s EXCEPT !.gSuccTokens = knob.matches],
                                      appeal, knob.matches)
                   s2   == [s1 EXCEPT !.mCurToken = IF top > saved THEN top ELSE saved]
                   s3   == IF Len(knob.matches) > 0 THEN MoveCurToken(s2) ELSE s2
               IN [SetAfter(s3, appeal, "SuccWasSucc") EXCEPT !.ret = knob.done]
     ELSE IF WasFailed(s, rule_table, saved)
          THEN [SetAfter(s, appeal, "FailWasFailed") EXCEPT !.ret = FALSE]
          ELSE [s EXCEPT !.ret = FALSE]

\* SuccMatch::SetIsDone for a rule outside every recursion group.
SetIsDone(s, rt, start_token) ==
  IF rt = TblLiteral \/ rt = TblIdentifier THEN s
  ELSE IF ~GetStartToken(s, rt, start_token) THEN Massert(s, "SetIsDone: found")
  ELSE SuccMatchSetIsDone(s, rt, start_token)

\* SetIsDone for every rule table of a recursion group.
RECURSIVE SetIsDoneRules(_, _, _)
SetIsDoneRules(s, rts, start_token) ==
  IF rts = {} THEN s
  ELSE LET rt == CHOOSE r \in rts : TRUE
           s1 == IF GetStartToken(s, rt, start_token)
                 THEN SuccMatchSetIsDone(s, rt, start_token) ELSE s
       IN SetIsDoneRules(s1, rts \ {rt}, start_token)

\* A recursion traversal that ends without freezing its SuccMatch entries.
SkipIsDoneGroup(s, group_id, start_token) == s

SetIsDoneGroup(s, group_id, start_token) ==
  SetIsDoneRules(s, grammar.groups[group_id], start_token)

\* RecursionTraversal::ConnectPrevious: the lead node met again inside a later
\* instance is linked to the lead node of the previous instance and returns
\* true with the end set that instance accumulated.
ConnectPrevious(s, rec_tra, curr_node) ==
  LET rt   == s.mRecStack[rec_tra]
      prev == rt.mLeadNodes[Len(rt.mLeadNodes) - 1]
      s1   == AddMatches(AddChild(s, curr_node, prev), curr_node,
                         Node(s, prev).mMatches)
  IN IF Len(rt.mLeadNodes) < 2
     THEN Massert(s, "ConnectPrevious: no previous instance")
     ELSE [s1 EXCEPT !.gSuccTokens = Node(s1, curr_node).mMatches, !.ret = TRUE]

TraverseRuleTable(s, rule_table, parent) ==
  LET appeal   == NewNodeId(s)
      saved    == s.mCurToken
      group_id == FindRecursionGroup(rule_table)
      in_group == group_id # 0
      type     == Rule(rule_table).mType
      \* after the children were traversed: s4 is the state they leave
      AfterRegular(s4, rec_tra) ==
        LET s5 == IF rec_tra # 0
                  THEN AddVisitedRecursionNode(s4, rec_tra, rule_table) ELSE s4
        IN CASE s4.ret -> Exit(IF in_group THEN s5 ELSE SetIsDone(s5, rule_table, saved),
                               rule_table, saved, appeal, TRUE)
             [] OTHER -> Exit(s5, rule_table, saved, appeal, FALSE)
      \* after the recursion traversal of a lead node
      AfterLeadNode(t) ==
        CASE t.ret -> Exit([t EXCEPT !.gSuccTokens = Node(t, appeal).mMatches],
                           rule_table, saved, appeal, TRUE)
          [] OTHER -> Exit([SetAfter(t, appeal, "FailChildrenFailed")
                              EXCEPT !.gSuccTokens = <<>>],
                           rule_table, saved, appeal, FALSE)
      AfterConnect(c) == Exit(c, rule_table, saved, appeal, c.ret)
      \* after TraverseRuleTablePre: s2 is the state it leaves
      AfterPre(s2) ==
        LET is_done == s2.ret
            rec_tra == IF in_group THEN FindRecStack(s2, group_id, saved) ELSE 0
            node2   == Node(s2, appeal)
            \* what the call found on entry, kept with the node for the trace
            g       == [s2 EXCEPT !.mAppealNodes[appeal].mPre =
                         [after |-> node2.mAfter, is_done |-> is_done,
                          group_done |-> in_group /\ \E r \in grammar.groups[group_id] :
                                           /\ GetStartToken(s2, r, saved)
                                           /\ SuccMatchIsDone(s2, r, saved),
                          rec_tra |-> rec_tra,
                          instance |-> IF rec_tra = 0 THEN ""
                                       ELSE s2.mRecStack[rec_tra].mInstance,
                          node_visited |-> rec_tra # 0
                                           /\ RecursionNodeVisited(s2, rec_tra, rule_table),
                          lead_visited |-> rec_tra # 0
                                           /\ LeadNodeVisited(s2, rec_tra, rule_table),
                          tokens |-> s2.gSuccTokens]]
            s3      == [g EXCEPT !.mCurToken = saved]
        IN
        CASE s2.abort # "" -> s2
          [] IsFail(node2) /\ (~in_group \/ is_done) ->
               Exit(g, rule_table, saved, appeal, FALSE)
          [] ~InBound(s2, saved) -> Massert(s2, "mActiveTokens OutOfBound")
          [] LookAheadFail(s2, rule_table, saved)
             /\ type # "ET_Zeroormore" /\ type # "ET_Zeroorone" ->
               Exit(AddFailed(SetAfter(g, appeal, "FailLookAhead"), rule_table, saved),
                    rule_table, saved, appeal, FALSE)
          [] IsSucc(node2) /\ (~in_group \/ is_done) ->
               Exit(g, rule_table, saved, appeal, TRUE)
          [] rec_tra # 0 /\ RecursionNodeVisited(s2, rec_tra, rule_table) ->
               Exit(g, rule_table, saved, appeal, TRUE)
          [] IsSucc(node2) /\ IsLeadNode(rule_table) /\ rec_tra = 0 ->
               Massert(s2, "TraverseRuleTable: rec_tra")
          [] IsSucc(node2) /\ IsLeadNode(rule_table)
             /\ LeadNodeVisited(s2, rec_tra, rule_table) ->
               AfterConnect(ConnectPrevious(SetAfter(g, appeal, "Succ"), rec_tra, appeal))
          [] rec_tra # 0 /\ s2.mRecStack[rec_tra].mInstance = "InstanceFirst"
             /\ LeadNodeVisited(s2, rec_tra, rule_table) ->
               Exit(AddAppealPoint(g, rec_tra, appeal), rule_table, saved, appeal, FALSE)
          [] IsLeadNode(rule_table) -> AfterLeadNode(TraverseLeadNode(s3, appeal, parent))
          [] OTHER -> AfterRegular(TraverseRuleTableRegular(s3, rule_table, appeal),
                                   rec_tra)
  IN
  CASE s.abort # "" -> s
    [] s.mEndOfFile -> Exit(s, rule_table, s.mCurToken, 0, FALSE)
    [] OTHER ->
         AfterPre(TraverseRuleTablePre(
                    AddChild(PushNode(s, [AppealNode EXCEPT !.mTable = rule_table,
                                            !.mStartIndex = saved, !.mParent = parent]),
                             parent, appeal),
                    appeal))

TraverseToken(s, token, parent) ==
  IF ~InBound(s, s.mCurToken) THEN Massert(s, "mActiveTokens OutOfBound")
  ELSE IF token = GetActiveToken(s, s.mCurToken)
  THEN LET appeal == NewNodeId(s)
           s1 == PushNode(s, [AppealNode EXCEPT !.mIsTable = FALSE, !.mToken = token,
                                !.mAfter = "Succ", !.mStartIndex = s.mCurToken,
                                !.mMatches = <<s.mCurToken>>, !.mParent = parent])
           s2 == AddChild(s1, parent, appeal)
       IN [MoveCurToken([s2 EXCEPT !.gSuccTokens = <<s.mCurToken>>]) EXCEPT !.ret = TRUE]
  ELSE [s EXCEPT !.ret = FALSE]

TraverseSpecialTableSucc(s, rule_table, appeal) ==
  LET s1 == [s EXCEPT !.gSuccTokens = <<s.mCurToken>>,
                      !.mAppealNodes[appeal].mAfter = "Succ",
                      !.mAppealNodes[appeal].mIsTable = FALSE,
                      !.mAppealNodes[appeal].mToken = GetActiveToken(s, s.mCurToken),
                      !.mAppealNodes[appeal].mStartIndex = s.mCurToken]
  IN MoveCurToken(AddMatch(s1, appeal, s.mCurToken))

TraverseSpecialTableFail(s, rule_table, appeal, status) ==
  SetAfter(AddFailed(s, rule_table, s.mCurToken), appeal, status)

TraverseLiteral(s, rule_table, appeal) ==
  IF ~InBound(s, s.mCurToken) THEN Massert(s, "mActiveTokens OutOfBound")
  ELSE IF IsLiteral(GetActiveToken(s, s.mCurToken))
  THEN [TraverseSpecialTableSucc(s, rule_table, appeal) EXCEPT !.ret = TRUE]
  ELSE [TraverseSpecialTableFail([s EXCEPT !.gSuccTokens = <<>>], rule_table, appeal,
                                 "FailNotLiteral") EXCEPT !.ret = FALSE]

TraverseIdentifier(s, rule_table, appeal) ==
  IF ~InBound(s, s.mCurToken) THEN Massert(s, "mActiveTokens OutOfBound")
  ELSE IF IsIdentifier(GetActiveToken(s, s.mCurToken))
  THEN [TraverseSpecialTableSucc(s, rule_table, appeal) EXCEPT !.ret = TRUE]
  ELSE [TraverseSpecialTableFail([s EXCEPT !.gSuccTokens = <<>>], rule_table, appeal,
                                 "FailNotIdentifier") EXCEPT !.ret = FALSE]

\* `parent` is the appeal node of rule_table itself.
TraverseRuleTableRegular(s, rule_table, parent) ==
  LET old_pos  == s.mCurToken
      was_succ == Node(s, parent).mAfter \in {"SuccWasSucc", "SuccStillWasSucc"}
      longest_match == IF was_succ THEN LongestMatch(Node(s, parent)) ELSE 0
      s0   == [s EXCEPT !.gSuccTokens = <<>>]
      type == Rule(rule_table).mType
      \* the matched == true branch: s2 holds the updated appeal node
      Matched(s2) == [ResetFailed(s2, rule_table, old_pos) EXCEPT !.ret = (s2.abort = "")]
      \* after the switch on the rule's type: s1 is the state the children leave
      AfterSwitch(s1) ==
        LET longest == SeqMax(s1.gSuccTokens) IN
        CASE s1.ret ->
               Matched(IF ~was_succ \/ longest > longest_match
                       THEN SetAfter(UpdateSuccInfo(s1, old_pos, parent), parent, "Succ")
                       ELSE SetAfter(s1, parent, "SuccStillWasSucc"))
          [] s1.abort # "" -> s1
          [] OTHER -> [AddFailed([SetAfter(s1, parent, "FailChildrenFailed")
                                    EXCEPT !.mCurToken = old_pos], rule_table, old_pos)
                         EXCEPT !.ret = FALSE]
  IN
  CASE s.abort # "" -> s
    [] was_succ /\ Len(Node(s, parent).mMatches) = 0 ->
         Massert(s, "LongestMatch: mMatches.GetNum() > 0")
    [] rule_table = TblIdentifier -> TraverseIdentifier(s0, rule_table, parent)
    [] rule_table = TblLiteral -> TraverseLiteral(s0, rule_table, parent)
    [] OTHER ->
         AfterSwitch(
           CASE type = "ET_Oneof"       -> TraverseOneof(s0, rule_table, parent)
             [] type = "ET_Zeroormore"  -> TraverseZeroormore(s0, rule_table, parent)
             [] type = "ET_Zeroorone"   -> TraverseZeroorone(s0, rule_table, parent)
             [] type = "ET_Concatenate" -> TraverseConcatenate(s0, rule_table, parent)
             [] type = "ET_Data"        ->
                  TraverseTableData(s0, Rule(rule_table).mData[1], parent)
             [] OTHER -> [s0 EXCEPT !.ret = FALSE])

TraverseTableData(s, data, parent) ==
  LET old_pos == s.mCurToken
      s0 == [s EXCEPT !.gSuccTokens = <<>>]
      \* after the sub-table was traversed
      AfterSubtable(s1) == IF s1.ret THEN s1 ELSE [s1 EXCEPT !.mCurToken = old_pos]
  IN
  CASE s.abort # "" -> [s EXCEPT !.ret = FALSE]
    [] s.mEndOfFile -> [s EXCEPT !.ret = FALSE]
    [] ~InBound(s, s.mCurToken) -> Massert(s, "mActiveTokens OutOfBound")
    [] data.mType = "DT_Token" -> TraverseToken(s0, data.mToken, parent)
    [] data.mType # "DT_Subtable" -> [s0 EXCEPT !.ret = FALSE]
    [] OTHER -> AfterSubtable(TraverseRuleTable(s0, data.mEntry, parent))

\* Appends the elements of xs that q does not hold yet.
RECURSIVE AppendNew(_, _)
AppendNew(q, xs) ==
  IF Len(xs) = 0 THEN q
  ELSE AppendNew(IF InSeq(Head(xs), q) THEN q ELSE Append(q, Head(xs)), Tail(xs))

\* mCurToken raised to token + 1 for each token in turn
RECURSIVE RaiseCurToken(_, _)
RaiseCurToken(cur, tokens) ==
  IF Len(tokens) = 0 THEN cur
  ELSE RaiseCurToken(IF Inc(Head(tokens)) > cur THEN Inc(Head(tokens)) ELSE cur,
                     Tail(tokens))

\* A rule without property Single.
NeverSingle(rule_table) == FALSE

\* rule_table->mProperties & RP_Single
IsSingle(rule_table) == "RP_Single" \in Rule(rule_table).mProperties

\* The end of TraverseOneof: gSuccTokens and mCurToken from the locals.
TraverseOneofEnd(s, l) ==
  [s EXCEPT !.gSuccTokens = l.succ_tokens,
            !.mCurToken = l.new_mCurToken,
            !.ret = l.found /\ s.abort = ""]

\* The loop over the children of a Oneof.
\* l: the locals found, succ_tokens, new_mCurToken, old_mCurToken
TraverseOneofLoop(s, rule_table, parent, i, l) ==
  LET \* after child i was traversed
      AfterChild(s1) ==
        LET l1 == [l EXCEPT !.found = TRUE,
                            !.succ_tokens = AppendNew(@, s1.gSuccTokens),
                            !.new_mCurToken = IF s1.mCurToken > @ THEN s1.mCurToken ELSE @]
            s2 == [s1 EXCEPT !.mCurToken = l.old_mCurToken]
        IN CASE s1.ret /\ IsSingle(rule_table) ->
                  TraverseOneofEnd(s2, l1)
             [] s1.ret -> TraverseOneofLoop(s2, rule_table, parent, i + 1, l1)
             [] OTHER -> TraverseOneofLoop(s1, rule_table, parent, i + 1, l)
  IN
  CASE i > Len(Rule(rule_table).mData) -> TraverseOneofEnd(s, l)
    [] OTHER -> AfterChild(TraverseTableData(s, Rule(rule_table).mData[i], parent))

TraverseOneof(s, rule_table, parent) ==
  TraverseOneofLoop([s EXCEPT !.gSuccTokens = <<>>], rule_table, parent, 1,
                    [found |-> FALSE, succ_tokens |-> <<>>,
                     new_mCurToken |-> s.mCurToken,
                     old_mCurToken |-> s.mCurToken])

IsZeroxxx(data) ==
  /\ data.mType = "DT_Subtable"
  /\ Rule(data.mEntry).mType \in {"ET_Zeroormore", "ET_Zeroorone"}

\* The loop over prev_succ_tokens[j] for one child of a Concatenate; the
\* locals come back in s.l and found_subtable in s.ret.
\* l: the locals found_subtable, subtable_succ_tokens
TraverseConcatenatePrev(s, data, parent, prevs, j, is_zeroxxx, l) ==
  LET prev == prevs[j]
      \* after the child was traversed from prev + 1
      AfterChild(s1) ==
        LET duplicated_with_prev == InSeq(prev, s1.gSuccTokens)
            l1 == [found_subtable |-> TRUE,
                   subtable_succ_tokens |->
                      l.subtable_succ_tokens \o s1.gSuccTokens
                      \o (IF is_zeroxxx /\ ~duplicated_with_prev THEN <<prev>> ELSE <<>>)]
        IN CASE s1.ret ->
                  TraverseConcatenatePrev(s1, data, parent, prevs, j + 1, is_zeroxxx, l1)
             [] OTHER ->
                  TraverseConcatenatePrev(s1, data, parent, prevs, j + 1, is_zeroxxx, l)
  IN
  CASE j > Len(prevs) -> [s EXCEPT !.ret = l.found_subtable, !.l = l]
    [] OTHER -> AfterChild(TraverseTableData([s EXCEPT !.mCurToken = Inc(prev)],
                                             data, parent))

\* TraverseConcatenate without its last test: the final set is returned as it
\* is, also when it holds only the token before the start.
TraverseConcatenateKeepFinal(s, l) ==
  IF l.found
  THEN [s EXCEPT !.gSuccTokens = l.final_succ_tokens,
                 !.mCurToken = RaiseCurToken(@, l.final_succ_tokens),
                 !.ret = (s.abort = "")]
  ELSE [s EXCEPT !.gSuccTokens = <<>>, !.mCurToken = l.saved_mCurToken,
                 !.ret = FALSE]

\* The end of TraverseConcatenate: a final set holding only the token before
\* the start means that nothing was matched.
TraverseConcatenateEnd(s, l) ==
  LET final == l.final_succ_tokens
      found == l.found /\ ~(Len(final) = 1 /\ final[1] = l.last_matched)
  IN IF found
     THEN [s EXCEPT !.gSuccTokens = final,
                    !.mCurToken = RaiseCurToken(@, final),
                    !.ret = (s.abort = "")]
     ELSE [s EXCEPT !.gSuccTokens = <<>>, !.mCurToken = l.saved_mCurToken,
                    !.ret = FALSE]

\* The loop over the children of a Concatenate.
\* l: the locals found, prev_succ_tokens, final_succ_tokens, saved_mCurToken,
\*    last_matched
TraverseConcatenateLoop(s, rule_table, parent, i, l) ==
  LET data == Rule(rule_table).mData[i]
      \* after child i was tried from every previous end
      AfterChild(r) ==
        LET sub == r.l.subtable_succ_tokens IN
        CASE r.ret -> TraverseConcatenateLoop(r, rule_table, parent, i + 1,
                        IF Len(sub) > 0
                        THEN [l EXCEPT !.prev_succ_tokens = sub, !.final_succ_tokens = sub]
                        ELSE l)
          [] OTHER -> TraverseConcatenateEnd(r, [l EXCEPT !.found = FALSE])
  IN
  CASE i > Len(Rule(rule_table).mData) -> TraverseConcatenateEnd(s, l)
    [] OTHER -> AfterChild(TraverseConcatenatePrev(s, data, parent, l.prev_succ_tokens, 1,
                                                   IsZeroxxx(data),
                                                   [found_subtable |-> FALSE,
                                                    subtable_succ_tokens |-> <<>>]))

TraverseConcatenate(s, rule_table, parent) ==
  TraverseConcatenateLoop([s EXCEPT !.gSuccTokens = <<>>], rule_table, parent, 1,
                          [found |-> TRUE,
                           prev_succ_tokens |-> <<Dec(s.mCurToken)>>,
                           final_succ_tokens |-> <<>>,
                           saved_mCurToken |-> s.mCurToken,
                           last_matched |-> Dec(s.mCurToken)])

\* The loop over prev_succ_tokens[j] in one round of a Zeroormore; the locals
\* come back in s.l and found_subtable in s.ret.
\* l: the locals found_subtable, subtable_succ_tokens, visited
TraverseZeroormorePrev(s, data, parent, prevs, j, l) ==
  LET \* after the child was traversed from prevs[j] + 1
      AfterChild(s1) ==
        LET l1 == [l EXCEPT !.found_subtable = TRUE,
                            !.subtable_succ_tokens = @ \o s1.gSuccTokens,
                            !.visited = Append(@, prevs[j])]
            l2 == [l EXCEPT !.visited = Append(@, prevs[j])]
        IN CASE s1.ret -> TraverseZeroormorePrev(s1, data, parent, prevs, j + 1, l1)
             [] OTHER -> TraverseZeroormorePrev(s1, data, parent, prevs, j + 1, l2)
  IN
  CASE j > Len(prevs) -> [s EXCEPT !.ret = l.found_subtable, !.l = l]
    [] OTHER -> AfterChild(TraverseTableData([s EXCEPT !.mCurToken = Inc(prevs[j])],
                                             data, parent))

\* The end of TraverseZeroormore, which always succeeds.
TraverseZeroormoreEnd(s, l) ==
  LET final == l.final_succ_tokens IN
  [s EXCEPT !.gSuccTokens = final,
            !.mCurToken = IF Len(final) = 0 THEN l.saved_mCurToken
                          ELSE RaiseCurToken(@, final),
            !.ret = (s.abort = "")]

\* The while(1) loop of a Zeroormore.
\* l: the locals prev_succ_tokens, visited, final_succ_tokens, saved_mCurToken
TraverseZeroormoreLoop(s, data, parent, l) ==
  LET \* after one round over the previous ends
      AfterRound(r) ==
        LET sub == r.l.subtable_succ_tokens IN
        CASE r.ret /\ Len(sub) > 0 ->
               TraverseZeroormoreLoop(r, data, parent,
                 [l EXCEPT !.prev_succ_tokens =
                              SelectSeq(sub, LAMBDA x : ~InSeq(x, r.l.visited)),
                           !.visited = r.l.visited,
                           !.final_succ_tokens = AppendNew(@, sub)])
          [] OTHER -> TraverseZeroormoreEnd(r, l)
  IN AfterRound(TraverseZeroormorePrev(s, data, parent, l.prev_succ_tokens, 1,
                                       [found_subtable |-> FALSE,
                                        subtable_succ_tokens |-> <<>>,
                                        visited |-> l.visited]))

TraverseZeroormore(s, rule_table, parent) ==
  IF Len(Rule(rule_table).mData) # 1
  THEN Massert(s, "zeroormore node has more than one elements?")
  ELSE TraverseZeroormoreLoop([s EXCEPT !.gSuccTokens = <<>>],
                              Rule(rule_table).mData[1], parent,
                              [prev_succ_tokens |-> <<Dec(s.mCurToken)>>,
                               visited |-> <<>>,
                               final_succ_tokens |-> <<>>,
                               saved_mCurToken |-> s.mCurToken])

\* TraverseZeroorone handing back what its child returned.
TraverseZerooroneAsChild(s, rule_table, parent) ==
  IF Len(Rule(rule_table).mData) # 1
  THEN Massert(s, "zeroormore node has more than one elements?")
  ELSE TraverseTableData([s EXCEPT !.gSuccTokens = <<>>],
                         Rule(rule_table).mData[1], parent)

TraverseZeroorone(s, rule_table, parent) ==
  LET AfterChild(s1) == [s1 EXCEPT !.ret = (s1.abort = "")] IN
  IF Len(Rule(rule_table).mData) # 1
  THEN Massert(s, "zeroormore node has more than one elements?")
  ELSE AfterChild(TraverseTableData([s EXCEPT !.gSuccTokens = <<>>],
                                    Rule(rule_table).mData[1], parent))

\* ------------------------------------------------------------------------
\* The recursion engine (RecursionTraversal)
\* ------------------------------------------------------------------------
\* Parser::Appeal: clears the FailSet entries of the nodes between an appeal
\* point and the lead node that turned out to succeed.
\* The walk without the test of the node's status: the entry of every node on
\* the way is cleared.
RECURSIVE AppealEveryNode(_, _, _)
AppealEveryNode(s, node, root) ==
  IF node = 0 \/ node = root THEN s
  ELSE AppealEveryNode(ResetFailed(s, Node(s, node).mTable, Node(s, node).mStartIndex),
                       Node(s, node).mParent, root)

RECURSIVE AppealWalk(_, _, _)
AppealWalk(s, node, root) ==
  IF node = 0 \/ node = root THEN s
  ELSE LET n  == Node(s, node)
           s1 == IF n.mAfter = "FailChildrenFailed"
                 THEN ResetFailed(s, n.mTable, n.mStartIndex) ELSE s
       IN AppealWalk(s1, n.mParent, root)

Appeal(s, start, root) ==
  IF ~IsSucc(Node(s, root)) THEN Massert(s, "Appeal: root->mAfter is not Succ.")
  ELSE AppealWalk(s, Node(s, start).mParent, root)

RECURSIVE AppealAll(_, _, _)
AppealAll(s, points, root) ==
  IF ~Ok(s) \/ Len(points) = 0 THEN s
  ELSE AppealAll(Appeal(s, Head(points), root), Tail(points), root)

\* A fresh lead node for the next instance of traversal rec_tra; the lead
\* rule is the only lead node visited so far in the new instance.
NewInstance(s, rec_tra, instance) ==
  LET rt   == s.mRecStack[rec_tra]
      lead == NewNodeId(s)
      s1   == PushNode(s, [AppealNode EXCEPT !.mTable = rt.mRuleTable,
                             !.mStartIndex = rt.mStartToken, !.mParent = rt.mSelf])
  IN [s1 EXCEPT !.mRecStack[rec_tra].mInstance = instance,
                !.mRecStack[rec_tra].mLeadNodes = Append(@, lead),
                !.mRecStack[rec_tra].mVisitedLeadNodes = {rt.mRuleTable},
                !.mRecStack[rec_tra].mVisitedRecursionNodes = {},
                !.mCurToken = rt.mStartToken]

\* The end of an instance: its end set goes to the trace.
EndInstance(s, rec_tra, lead, found) ==
  [s EXCEPT !.mRecStack[rec_tra].mEnds =
              Append(@, IF found THEN Range(Node(s, lead).mMatches) ELSE {}),
            !.ret = found]

FindFirstInstance(s, rec_tra) ==
  LET s1   == NewInstance(s, rec_tra, "InstanceFirst")
      rt   == s1.mRecStack[rec_tra]
      lead == rt.mLeadNodes[Len(rt.mLeadNodes)]
      Connected(s5) == EndInstance(s5, rec_tra, lead, s5.abort = "")
      \* after the lead node's children were traversed
      AfterRegular(s2) ==
        LET s3 == AppealAll(s2, s2.mRecStack[rec_tra].mAppealPoints, lead)
            s4 == [s3 EXCEPT !.mRecStack[rec_tra].mAppealPoints = <<>>]
        IN CASE s2.ret -> Connected(CopyMatch(AddChild(s4, rt.mSelf, lead), rt.mSelf, lead))
             [] OTHER -> EndInstance([s2 EXCEPT !.mRecStack[rec_tra].mAppealPoints = <<>>],
                                     rec_tra, lead, FALSE)
  IN AfterRegular(TraverseRuleTableRegular(s1, rt.mRuleTable, lead))

\* One more instance.  It is productive when its lead node holds an end
\* index that the instances before it did not reach; otherwise its lead node
\* is taken out of SuccMatch and left apart from the tree.
FindRestInstance(s, rec_tra) ==
  LET s1   == NewInstance(s, rec_tra, "InstanceRest")
      rt   == s1.mRecStack[rec_tra]
      lead == rt.mLeadNodes[Len(rt.mLeadNodes)]
      \* after the lead node's children were traversed
      AfterRegular(s2) ==
        CASE s2.ret /\ ~(Range(Node(s2, lead).mMatches)
                           \subseteq Range(Node(s2, rt.mSelf).mMatches)) ->
               EndInstance(CopyMatch(AddChild(s2, rt.mSelf, lead), rt.mSelf, lead),
                           rec_tra, lead, TRUE)
          [] OTHER ->
               [EndInstance([RemoveSuccNode(s2, rt.mStartToken, lead)
                               EXCEPT !.mAppealNodes[lead].mParent = 0,
                                      !.mRecStack[rec_tra].mLeadNodes =
                                          SubSeq(@, 1, Len(@) - 1)],
                            rec_tra, lead, s2.ret)
                  EXCEPT !.ret = FALSE]
  IN AfterRegular(TraverseRuleTableRegular(s1, rt.mRuleTable, lead))

FindRestInstances(s, rec_tra) ==
  LET AfterInstance(s1) ==
        CASE s1.ret -> FindRestInstances(s1, rec_tra)
          [] OTHER -> s1
  IN AfterInstance(FindRestInstance(s, rec_tra))

FindInstances(s, rec_tra) ==
  LET AfterRest(r) == [r EXCEPT !.ret = (r.abort = "")]
      AfterFirst(s1) ==
        CASE s1.ret -> AfterRest(FindRestInstances(s1, rec_tra))
          [] OTHER -> s1
  IN AfterFirst(FindFirstInstance(s, rec_tra))

\* Parser::TraverseLeadNode: one recursion traversal of the lead node `appeal`.
TraverseLeadNode(s, appeal, parent) ==
  LET rule_table == Node(s, appeal).mTable
      group_id   == FindRecursionGroup(rule_table)
      start      == Node(s, appeal).mStartIndex
      saved      == s.mCurToken
      rec_tra    == Len(s.mRecStack) + 1
      s1 == [s EXCEPT !.mRecStack =
               Append(@, [mGroupId |-> group_id, mStartToken |-> start,
                          mRuleTable |-> rule_table, mSelf |-> appeal,
                          mInstance |-> "InstanceFirst", mLeadNodes |-> <<>>,
                          mVisitedLeadNodes |-> {}, mVisitedRecursionNodes |-> {},
                          mAppealPoints |-> <<>>, mEnds |-> <<>>])]
      \* the traversal is over: s3 has the cursor after the longest match
      Finished(s2, s3) ==
        [s3 EXCEPT !.mRecStack = SubSeq(@, 1, Len(@) - 1),
                   !.recs = Append(@, [rule |-> rule_table, start |-> start,
                                       found |-> s2.ret,
                                       ends |-> s2.mRecStack[rec_tra].mEnds,
                                       done |-> GetStartToken(s3, rule_table, start)
                                                /\ SuccMatchIsDone(s3, rule_table, start)]),
                   !.ret = s2.ret]
      \* after the instances: s2 is the state they leave
      AfterInstances(s2) ==
        CASE s2.abort # "" -> s2
          [] s2.ret -> Finished(s2, [SetIsDoneGroup(s2, group_id, start) EXCEPT
                                       !.mCurToken = Inc(LongestMatch(Node(s2, appeal)))])
          [] OTHER -> Finished(s2, [s2 EXCEPT !.mCurToken = saved])
  IN AfterInstances(FindInstances(s1, rec_tra))

\* ------------------------------------------------------------------------
\* Sort-out
\* ------------------------------------------------------------------------
\* child->SetFinalMatch(m); child->SetSorted(); child->SetParent(parent)
Pin(s, child, m, parent) ==
  [s EXCEPT !.mAppealNodes[child].mFinalMatch = m,
            !.mAppealNodes[child].mSorted = TRUE,
            !.mAppealNodes[child].mParent = parent]

\* Every child of the parent becomes a sorted child, the failed ones too.
AddEveryChild(s, parent, child) ==
  [s EXCEPT !.mAppealNodes[parent].mSortedChildren =
              Append(@, child)
              \o SelectSeq(Node(s, parent).mChildren,
                           LAMBDA c : c # child /\ ~InSeq(c, Node(s, parent).mSortedChildren))]

AddSortedChild(s, parent, child) ==
  [s EXCEPT !.mAppealNodes[parent].mSortedChildren = Append(@, child)]

Enqueue(s, n) == [s EXCEPT !.to_be_sorted = Append(@, n)]

\* Sorted children handed over in the order the right-to-left loop found them.
NoReverse(q) == q

Reverse(q) == [i \in 1..Len(q) |-> q[Len(q) + 1 - i]]

\* AppealNode::FindSpecChild: the loop has no break, so the last child that
\* qualifies is the one returned; 0 when there is none.
SpecChild(s, child, tdata, match) ==
  LET c == Node(s, child) IN
  /\ IsSucc(c) /\ FindMatch(c, match)
  /\ \/ /\ tdata.mType = "DT_Subtable"
        /\ \/ IsTable(c) /\ c.mTable = tdata.mEntry
           \/ IsToken(c) /\ tdata.mEntry \in {TblLiteral, TblIdentifier}
     \/ /\ tdata.mType = "DT_Token"
        /\ IsToken(c) /\ c.mToken = tdata.mToken

FindSpecChild(s, parent, tdata, match) ==
  LET ch  == Node(s, parent).mChildren
      ids == {i \in DOMAIN ch : SpecChild(s, ch[i], tdata, match)}
  IN IF ids = {} THEN 0 ELSE ch[CHOOSE i \in ids : \A j \in ids : j <= i]

\* The first index of q whose element is in good, or 0.
FirstIndex(q, good) ==
  LET ids == {i \in DOMAIN q : q[i] \in good}
  IN IF ids = {} THEN 0 ELSE CHOOSE i \in ids : \A j \in ids : i <= j

SortOutRecursionHead(s, parent) ==
  LET p == Node(s, parent)
      k == FirstIndex(p.mChildren,
                      {c \in Range(p.mChildren) :
                         ~IsFail(Node(s, c)) /\ FindMatch(Node(s, c), p.mFinalMatch)})
      child == p.mChildren[k]
  IN IF k = 0 THEN s
     ELSE Pin(AddSortedChild(Enqueue(s, child), parent, child),
              child, p.mFinalMatch, parent)

\* SortOutOneof keeping the last good child instead of the first.
SortOutOneofLast(s, parent) ==
  LET p == Node(s, parent)
      good == {i \in DOMAIN p.mChildren :
                 /\ ~IsFail(Node(s, p.mChildren[i]))
                 /\ IF IsToken(Node(s, p.mChildren[i]))
                    THEN Node(s, p.mChildren[i]).mStartIndex = p.mFinalMatch
                    ELSE FindMatch(Node(s, p.mChildren[i]), p.mFinalMatch)}
      child == p.mChildren[CHOOSE i \in good : \A j \in good : j <= i]
  IN IF ~p.mSorted THEN Massert(s, "SortOutOneof: parent is not sorted?")
     ELSE IF Len(p.mMatches) = 0 \/ good = {} THEN s
     ELSE IF IsToken(Node(s, child))
     THEN Pin(AddSortedChild(s, parent, child), child, p.mFinalMatch, parent)
     ELSE Pin(AddSortedChild(Enqueue(s, child), parent, child),
              child, p.mFinalMatch, parent)

SortOutOneof(s, parent) ==
  LET p == Node(s, parent)
      \* the loop stops at the first good child; failed children are skipped
      k == FirstIndex(p.mChildren,
             {c \in Range(p.mChildren) :
                /\ ~IsFail(Node(s, c))
                /\ IF IsToken(Node(s, c))
                   THEN Node(s, c).mStartIndex = p.mFinalMatch
                   ELSE FindMatch(Node(s, c), p.mFinalMatch)})
      child == p.mChildren[k]
  IN IF ~p.mSorted THEN Massert(s, "SortOutOneof: parent is not sorted?")
     ELSE IF Len(p.mMatches) = 0 \/ k = 0 THEN s
     ELSE IF IsToken(Node(s, child))
     THEN Pin(AddSortedChild(s, parent, child), child, p.mFinalMatch, parent)
     ELSE Pin(AddSortedChild(Enqueue(s, child), parent, child),
              child, p.mFinalMatch, parent)

\* Every successful child of the parent is pushed, not only the ones the
\* backward search has picked.
PushEverySucc(s, parent, children) ==
  [s EXCEPT !.mAppealNodes[parent].mSortedChildren =
              @ \o SelectSeq(Node(s, parent).mChildren, LAMBDA c : IsSucc(Node(s, c))),
            !.to_be_sorted =
              @ \o SelectSeq(children, LAMBDA c : IsTable(Node(s, c)))]

\* sorted_children are pushed to the parent in reverse, tables are enqueued.
RECURSIVE PushSorted(_, _, _)
PushSorted(s, parent, children) ==
  IF Len(children) = 0 THEN s
  ELSE LET child == Head(children)
           s1 == AddSortedChild(s, parent, child)
           s2 == IF IsTable(Node(s1, child)) THEN Enqueue(s1, child) ELSE s1
       IN PushSorted(s2, parent, Tail(children))

\* The while(1) loop of SortOutZeroormore.  l: sorted_children, last_match
RECURSIVE SortOutZeroormoreLoop(_, _, _)
SortOutZeroormoreLoop(s, parent, l) ==
  LET p == Node(s, parent)
      k == FirstIndex(p.mChildren,
             {c \in Range(p.mChildren) :
                /\ ~InSeq(c, l.sorted_children)
                /\ IsSucc(Node(s, c)) /\ FindMatch(Node(s, c), l.last_match)})
      good_child == p.mChildren[k]
      s1 == Pin(s, good_child, l.last_match, parent)
      l1 == [sorted_children |-> Append(l.sorted_children, good_child),
             last_match |-> Dec(Node(s, good_child).mStartIndex)]
  IN IF k = 0 THEN [s |-> Massert(s, "SortOutZeroormore: good_child"), l |-> l]
     ELSE IF Node(s, good_child).mStartIndex = p.mStartIndex THEN [s |-> s1, l |-> l1]
     ELSE SortOutZeroormoreLoop(s1, parent, l1)

SortOutZeroormore(s, parent) ==
  LET p == Node(s, parent)
      r == SortOutZeroormoreLoop(s, parent, [sorted_children |-> <<>>,
                                             last_match |-> p.mFinalMatch])
  IN IF ~p.mSorted THEN Massert(s, "SortOutZeroormore: parent->IsSorted()")
     ELSE IF Len(p.mMatches) = 0 THEN s
     ELSE IF ~Ok(r.s) THEN r.s
     ELSE IF Inc(r.l.last_match) # p.mStartIndex
     THEN Massert(r.s, "SortOutZeroormore: last_match + 1 == parent->GetStartIndex()")
     ELSE PushSorted(r.s, parent, Reverse(r.l.sorted_children))

SortOutZeroorone(s, parent) ==
  LET p == Node(s, parent)
      child == p.mChildren[1]
      c == Node(s, child)
  IN IF ~p.mSorted THEN Massert(s, "SortOutZeroorone: parent->IsSorted()")
     ELSE IF Len(p.mMatches) = 0 THEN s
     ELSE IF Len(p.mChildren) # 1 THEN Massert(s, "Zeroorone has >1 valid children?")
     ELSE IF IsFail(c) THEN s
     ELSE IF p.mStartIndex # c.mStartIndex
     THEN Massert(s, "In Zeroorone node parent and child has different start index")
     ELSE IF IsToken(c)
     THEN IF p.mFinalMatch # c.mStartIndex
          THEN Massert(s, "Token node match_index != start_index ??")
          ELSE AddSortedChild(Pin(s, child, c.mStartIndex, parent), parent, child)
     ELSE IF ~FindMatch(c, p.mFinalMatch)
          THEN Massert(s, "The only child has different match than parent.")
          ELSE AddSortedChild(Enqueue(Pin(s, child, p.mFinalMatch, parent), child),
                              parent, child)

\* The right-to-left loop of SortOutConcatenate.  l: sorted_children, last_match
RECURSIVE SortOutConcatenateLoop(_, _, _, _)
SortOutConcatenateLoop(s, parent, i, l) ==
  IF i = 0 \/ ~Ok(s) THEN [s |-> s, l |-> l]
  ELSE LET data  == Rule(Node(s, parent).mTable).mData[i]
           child == FindSpecChild(s, parent, data, l.last_match)
       IN IF child = 0
          THEN IF IsZeroxxx(data)
               THEN SortOutConcatenateLoop(s, parent, i - 1, l)
               ELSE [s |-> Massert(s, "SortOutConcatenate: good_child"), l |-> l]
          ELSE SortOutConcatenateLoop(
                 Pin(s, child, l.last_match, parent), parent, i - 1,
                 [sorted_children |-> Append(l.sorted_children, child),
                  last_match |-> Dec(Node(s, child).mStartIndex)])

SortOutConcatenate(s, parent) ==
  LET p == Node(s, parent)
      r == SortOutConcatenateLoop(s, parent, Len(Rule(p.mTable).mData),
                                  [sorted_children |-> <<>>,
                                   last_match |-> p.mFinalMatch])
  IN IF ~p.mSorted THEN Massert(s, "SortOutConcatenate: parent->IsSorted()")
     ELSE IF Len(p.mMatches) = 0 THEN s
     ELSE IF ~Ok(r.s) THEN r.s
     ELSE IF Inc(r.l.last_match) # p.mStartIndex
     THEN Massert(r.s, "SortOutConcatenate: last_match + 1 == parent->GetStartIndex()")
     ELSE PushSorted(r.s, parent, Reverse(r.l.sorted_children))

SortOutData(s, parent) ==
  LET p     == Node(s, parent)
      data  == Rule(p.mTable).mData[1]
      child == p.mChildren[1]
  IN IF data.mType = "DT_Subtable"
     THEN IF Len(p.mChildren) # 1 THEN Massert(s, "Should have only one child?")
          ELSE AddSortedChild(Enqueue(Pin(s, child, p.mFinalMatch, parent), child),
                              parent, child)
     ELSE IF data.mType = "DT_Token"
     THEN \* a Data rule that succeeded on a token has the token node as child
          AddSortedChild([s EXCEPT !.mAppealNodes[child].mFinalMatch =
                                       Node(s, child).mStartIndex,
                                   !.mAppealNodes[child].mParent = parent],
                         parent, child)
     ELSE s

SortOutNode(s, node) ==
  LET n == Node(s, node)
      rule_table == n.mTable
      connect_only == \A i \in DOMAIN n.mChildren :
                         /\ IsTable(Node(s, n.mChildren[i]))
                         /\ Node(s, n.mChildren[i]).mTable = rule_table
      type == Rule(rule_table).mType
  IN IF ~n.mSorted THEN Massert(s, "Node is NOT sorted?")
     ELSE IF ~IsSucc(n) THEN Massert(s, "Failed node in SortOut?")
     ELSE IF IsToken(n) THEN [s EXCEPT !.mAppealNodes[node].mFinalMatch = n.mStartIndex]
     ELSE IF n.mAfter = "SuccWasSucc"
     THEN IF Len(n.mChildren) # 0
          THEN Massert(s, "SortOutNode: node->mChildren.size() == 0") ELSE s
     ELSE IF n.mAfter = "SuccStillWasSucc" THEN s
     ELSE IF rule_table = TblIdentifier \/ rule_table = TblLiteral THEN s
     ELSE IF IsLeadNode(rule_table) /\ connect_only THEN SortOutRecursionHead(s, node)
     ELSE CASE type = "ET_Oneof"       -> SortOutOneof(s, node)
            [] type = "ET_Zeroormore"  -> SortOutZeroormore(s, node)
            [] type = "ET_Zeroorone"   -> SortOutZeroorone(s, node)
            [] type = "ET_Concatenate" -> SortOutConcatenate(s, node)
            [] type = "ET_Data"        -> SortOutData(s, node)
            [] OTHER -> s

\* while (!to_be_sorted.empty()) SortOutNode(to_be_sorted.pop_front())
RECURSIVE SortOutQueue(_)
SortOutQueue(s) ==
  IF ~Ok(s) \/ Len(s.to_be_sorted) = 0 THEN s
  ELSE SortOutQueue(SortOutNode([s EXCEPT !.to_be_sorted = Tail(@)],
                                Head(s.to_be_sorted)))

mRootNode == 1

SortOut(s) ==
  LET kept == SelectSeq(Node(s, mRootNode).mChildren, LAMBDA n : ~IsFail(Node(s, n)))
      s1   == [s EXCEPT !.mAppealNodes[mRootNode].mSortedChildren = @ \o kept]
      root == Node(s1, mRootNode).mSortedChildren[1]
      r    == Node(s1, root)
      knob == s1.gSucc[r.mTable][r.mStartIndex]
  IN IF Len(Node(s1, mRootNode).mSortedChildren) # 1
     THEN Massert(s1, "SortOut: mRootNode->mSortedChildren.size()==1")
     ELSE IF ~IsTable(r) THEN Massert(s1, "root is not a table?")
     ELSE IF ~GetStartToken(s1, r.mTable, r.mStartIndex)
     THEN Massert(s1, "SortOut: root has no SuccMatch entry")
     ELSE IF Len(knob.matches) # 1 THEN Massert(s1, "Top level tree has >1 matches?")
     ELSE SortOutQueue([s1 EXCEPT !.mAppealNodes[root].mFinalMatch = knob.matches[1],
                                  !.mAppealNodes[root].mSorted = TRUE,
                                  !.to_be_sorted = <<root>>])

SupplementalSortOut(s, root, reference) ==
  IF Len(Node(s, root).mSortedChildren) # 0 THEN Massert(s, "root should be un-sorted.")
  ELSE IF ~IsTable(Node(s, root)) THEN Massert(s, "root should be a table node.")
  ELSE IF ~Node(s, reference).mSorted THEN Massert(s, "reference is not sorted?")
  ELSE SortOutQueue([s EXCEPT !.mAppealNodes[root].mFinalMatch =
                                  Node(s, reference).mFinalMatch,
                              !.mAppealNodes[root].mSorted = TRUE,
                              !.to_be_sorted = <<root>>])

\* ------------------------------------------------------------------------
\* WasSucc patching
\* ------------------------------------------------------------------------
\* A FindWasSucc that finds nothing.
FindNoWasSucc(s, working_list) == <<>>

\* Parser::FindWasSucc: breadth first over mSortedChildren, not descending
\* below a SuccWasSucc node.  Returns was_succ_list.
RECURSIVE FindWasSuccList(_, _)
FindWasSuccList(s, working_list) ==
  IF Len(working_list) = 0 THEN <<>>
  ELSE LET node == Head(working_list) IN
       IF Node(s, node).mAfter = "SuccWasSucc"
       THEN <<node>> \o FindWasSuccList(s, Tail(working_list))
       ELSE FindWasSuccList(s, Tail(working_list) \o Node(s, node).mSortedChildren)

FindWasSucc(s, root) == FindWasSuccList(s, <<root>>)

\* AppealNode::DescendantOf; k bounds the walk by the size of the arena.
RECURSIVE DescendantOfWalk(_, _, _, _)
DescendantOfWalk(s, node, parent, k) ==
  IF node = 0 \/ k = 0 THEN FALSE
  ELSE IF node = parent THEN TRUE
  ELSE DescendantOfWalk(s, Node(s, node).mParent, parent, k - 1)

DescendantOf(s, n, parent) ==
  DescendantOfWalk(s, Node(s, n).mParent, parent, Len(s.mAppealNodes))

\* The loop over the succ nodes in FindPatchingNodes.  Returns the youngest
\* node, 0 when there is none, or -1 when the assertion in the loop fails.
RECURSIVE Youngest(_, _, _, _)
Youngest(s, nodes, final_match, youngest) ==
  IF Len(nodes) = 0 THEN youngest
  ELSE LET node == Head(nodes) IN
       IF ~FindMatch(Node(s, node), final_match)
       THEN Youngest(s, Tail(nodes), final_match, youngest)
       ELSE IF youngest = 0 THEN Youngest(s, Tail(nodes), final_match, node)
       ELSE IF DescendantOf(s, node, youngest)
       THEN Youngest(s, Tail(nodes), final_match, node)
       ELSE IF DescendantOf(s, youngest, node)
       THEN Youngest(s, Tail(nodes), final_match, youngest)
       ELSE -1

\* Parser::FindPatchingNodes for one node of was_succ_list: s.num is the
\* patching node.
FindPatchingNode(s, was_succ) ==
  LET w == Node(s, was_succ)
      y == Youngest(s, s.gSucc[w.mTable][w.mStartIndex].nodes, w.mFinalMatch, 0)
  IN IF ~w.mSorted THEN Massert(s, "FindPatchingNodes: was_succ->IsSorted()")
     ELSE IF ~GetStartToken(s, w.mTable, w.mStartIndex)
     THEN Massert(s, "WasSucc cannot find start index in SuccMatch?")
     ELSE IF y = -1 THEN Massert(s, "FindPatchingNodes: youngest->DescendantOf(node)")
     ELSE IF y = 0 THEN Massert(s, "succ matching node is missing?")
     ELSE [s EXCEPT !.num = y]

RECURSIVE FindPatchingNodes(_, _, _)
FindPatchingNodes(s, was_succ_list, patching_list) ==
  LET AfterNode(s1) ==
        IF ~Ok(s1) THEN [s |-> s1, patching_list |-> patching_list]
        ELSE FindPatchingNodes(s1, Tail(was_succ_list), Append(patching_list, s1.num))
  IN IF Len(was_succ_list) = 0 THEN [s |-> s, patching_list |-> patching_list]
     ELSE AfterNode(FindPatchingNode(s, Head(was_succ_list)))

\* Step 3 of a round without the patch: the status becomes Succ and no sorted
\* child is handed over.
RECURSIVE PatchAllStatusOnly(_, _, _)
PatchAllStatusOnly(s, was_succ_list, patching_list) ==
  IF ~Ok(s) \/ Len(was_succ_list) = 0 THEN s
  ELSE PatchAllStatusOnly([s EXCEPT !.mAppealNodes[Head(was_succ_list)].mAfter = "Succ"],
                          Tail(was_succ_list), Tail(patching_list))

\* Step 3 of a round: sort the patch and hand its sorted children over.
RECURSIVE PatchAll(_, _, _)
PatchAll(s, was_succ_list, patching_list) ==
  LET patch    == Head(patching_list)
      was_succ == Head(was_succ_list)
      \* after the supplemental sort-out of the patch
      AfterSortOut(s1) ==
        IF ~Ok(s1) THEN s1
        ELSE PatchAll([s1 EXCEPT !.mAppealNodes[was_succ].mAfter = "Succ",
                                 !.mAppealNodes[was_succ].mSortedChildren =
                                     @ \o Node(s1, patch).mSortedChildren],
                      Tail(was_succ_list), Tail(patching_list))
  IN IF ~Ok(s) \/ Len(was_succ_list) = 0 THEN s
     ELSE AfterSortOut(SupplementalSortOut(s, patch, was_succ))

\* One round of the while(1) loop of Parser::PatchWasSucc; s.ret tells
\* whether the loop goes on.
PatchWasSuccRound(s, root) ==
  LET was_succ_list == FindWasSucc(s, root)
      AfterFind(r) ==
        IF ~Ok(r.s) THEN r.s
        ELSE [PatchAll(r.s, was_succ_list, r.patching_list) EXCEPT !.ret = TRUE]
  IN IF Len(was_succ_list) = 0 THEN [s EXCEPT !.ret = FALSE]
     ELSE AfterFind(FindPatchingNodes(s, was_succ_list, <<>>))

\* ------------------------------------------------------------------------
\* Simplification of the sorted tree
\* ------------------------------------------------------------------------
\* RuleActionHasElem: some action of the rule takes element `index`.
RuleActionHasElem(rt, index) ==
  \E a \in Range(Rule(rt).mActions) : index \in Range(a.mElems)

\* AppealNode::GetSortedChildIndex: the index (from 1) of the last slot of
\* the parent's rule that fits the child, or 0 when not found.
GetSortedChildIndex(s, parent, child) ==
  LET c    == Node(s, child)
      data == Rule(Node(s, parent).mTable).mData
      fits(d) == \/ /\ d.mType = "DT_Token" /\ IsToken(c) /\ c.mToken = d.mToken
                 \/ /\ d.mType = "DT_Subtable"
                    /\ IF d.mEntry = TblIdentifier
                       THEN IsToken(c) /\ IsIdentifier(c.mToken)
                       ELSE IF d.mEntry = TblLiteral
                       THEN IsToken(c) /\ IsLiteral(c.mToken)
                       ELSE IsTable(c) /\ c.mTable = d.mEntry
      ids == {i \in DOMAIN data : fits(data[i])}
  IN IF c.mSimplifiedIndex # 0 THEN c.mSimplifiedIndex
     ELSE IF ids = {} THEN 0
     ELSE CHOOSE i \in ids : \A j \in ids : j <= i

\* AppealNode::ReplaceSortedChild
ReplaceSortedChild(s, parent, existing, replacement) ==
  LET sc == Node(s, parent).mSortedChildren
      k  == FirstIndex(sc, {existing})
  IN IF k = 0 THEN Massert(s, "ReplaceSortedChild could not find existing node?")
     ELSE [s EXCEPT !.mAppealNodes[parent].mSortedChildren[k] = replacement,
                    !.mAppealNodes[replacement].mParent = parent]

\* The while(1) loop of SimplifyShrinkEdges; s.num is the node returned.
RECURSIVE SimplifyShrinkEdges(_, _, _)
SimplifyShrinkEdges(s, node, index) ==
  LET n      == Node(s, node)
      child  == n.mSortedChildren[1]
      child_index == GetSortedChildIndex(s, node, child)
      parent == n.mParent
      s1     == ReplaceSortedChild(s, parent, node, child)
      index1 == IF parent # mRootNode /\ index = 0
                THEN GetSortedChildIndex(s1, parent, node) ELSE index
  IN IF ~Ok(s) \/ Len(n.mSortedChildren) # 1 THEN [s EXCEPT !.num = node]
     ELSE IF child_index = 0 /\ ~(IsTable(Node(s, child)) /\ Node(s, child).mTable = n.mTable)
     THEN Massert(s, "SimplifyShrinkEdges: rt_p == rt_c")
     ELSE IF child_index = 0 /\ ~IsLeadNode(n.mTable)
     THEN Massert(s, "SimplifyShrinkEdges: IsLeadNode(rt_p)")
     ELSE IF child_index # 0 /\ RuleActionHasElem(n.mTable, child_index)
     THEN [s EXCEPT !.num = node]
     ELSE IF parent = 0 THEN Massert(s, "SimplifyShrinkEdges: parent is NULL")
     ELSE IF ~Ok(s1) THEN s1
     ELSE IF parent # mRootNode /\ index = 0 /\ index1 = 0
     THEN Massert(s1, "Could not find child index?")
     ELSE SimplifyShrinkEdges([s1 EXCEPT !.mAppealNodes[child].mSimplifiedIndex = index1],
                              child, index1)

RECURSIVE SimplifyList(_, _)
SimplifyList(s, working_list) ==
  LET node == Head(working_list)
      AfterShrink(s1) ==
        IF ~Ok(s1) THEN s1
        ELSE SimplifyList(s1, Tail(working_list) \o Node(s1, s1.num).mSortedChildren)
  IN IF ~Ok(s) \/ Len(working_list) = 0 THEN s
     ELSE IF ~IsSucc(Node(s, node)) THEN Massert(s, "Sorted node is not succ?")
     ELSE IF IsToken(Node(s, node)) THEN SimplifyList(s, Tail(working_list))
     ELSE AfterShrink(SimplifyShrinkEdges(s, node, 0))

SimplifySortedTree(s) ==
  SimplifyList(s, <<Node(s, mRootNode).mSortedChildren[1]>>)

\* ------------------------------------------------------------------------
\* The AST of a construct, as far as these properties need it: the sorted
\* tree under the root, node by node.
\* ------------------------------------------------------------------------
RECURSIVE SortedNodes(_, _, _)
SortedNodes(s, working_list, k) ==
  IF Len(working_list) = 0 \/ k = 0 THEN <<>>
  ELSE <<Head(working_list)>>
       \o SortedNodes(s, Tail(working_list) \o Node(s, Head(working_list)).mSortedChildren,
                      k - 1)

\* AppealNode::GetSortedChildByIndex: the first sorted child whose index is
\* `index`, 0 (NULL) when there is none, and -1 when the MASSERT on a sorted
\* child without an index fails before one is found.
RECURSIVE GetSortedChildByIndexLoop(_, _, _, _)
GetSortedChildByIndexLoop(s, parent, index, i) ==
  LET sc == Node(s, parent).mSortedChildren IN
  IF i > Len(sc) THEN 0
  ELSE LET id == GetSortedChildIndex(s, parent, sc[i]) IN
       IF id = 0 THEN -1
       ELSE IF id = index THEN sc[i]
       ELSE GetSortedChildByIndexLoop(s, parent, index, i + 1)

GetSortedChildByIndex(s, parent, index) == GetSortedChildByIndexLoop(s, parent, index, 1)

\* ASTTree::NewTreeNode, the gathering of the parameters: for every action of
\* the node's rule and every element of the action, the sorted child whose
\* AST node or token becomes the parameter (0: the parameter is empty).
NewTreeNode(s, appeal_node) ==
  LET acts == IF IsToken(Node(s, appeal_node)) THEN <<>>
              ELSE Rule(Node(s, appeal_node).mTable).mActions
  IN [a \in DOMAIN acts |->
        [j \in DOMAIN acts[a].mElems |->
           GetSortedChildByIndex(s, appeal_node, acts[a].mElems[j])]]

\* Parser::BuildAST: NewTreeNode runs on every node of the sorted tree.
BuildAST(s) ==
  LET top   == Node(s, mRootNode).mSortedChildren[1]
      nodes == Range(SortedNodes(s, <<top>>, Len(s.mAppealNodes)))
      pars  == [n \in nodes |-> NewTreeNode(s, n)]
  IN
  [mRootNode |-> top, mRule |-> Node(s, top).mTable,
   mStart |-> Node(s, top).mStartIndex, mFinalMatch |-> Node(s, top).mFinalMatch,
   mParams |-> pars,
   abort |-> IF \E n \in nodes : \E a \in DOMAIN pars[n] : -1 \in Range(pars[n][a])
             THEN "sorted child has no index.." ELSE ""]

\* ------------------------------------------------------------------------
\* Parser::TraverseStmt, Parser::ParseStmt, Parser::Parse
\* ------------------------------------------------------------------------
\* The loop over gTopRules; on success the tree is sorted out.
RECURSIVE TraverseStmtLoop(_, _)
TraverseStmtLoop(s, i) ==
  LET s0 == [s EXCEPT !.mAppealNodes[mRootNode].mChildren = <<>>]
      AfterSortOut(s3) == [s3 EXCEPT !.ret = (s3.abort = "")]
      \* after top rule i was traversed
      AfterRule(s1) ==
        LET children == Node(s1, mRootNode).mChildren
            topnode  == Node(s1, children[1])
        IN
        CASE s1.abort # "" -> s1
          [] ~s1.ret -> TraverseStmtLoop(s1, i + 1)
          [] Len(children) # 1 ->
               Massert(s1, "TraverseStmt: mRootNode->mChildren.size() == 1")
          [] ~IsSucc(topnode) -> Massert(s1, "TraverseStmt: topnode->IsSucc()")
          [] Len(topnode.mMatches) # 1 ->
               Massert(s1, "TraverseStmt: topnode->GetMatchNum() == 1")
          [] OTHER ->
               AfterSortOut(SortOut([s1 EXCEPT !.mCurToken = Inc(topnode.mMatches[1]),
                                               !.mAppealNodes[mRootNode].mAfter = "Succ"]))
  IN
  CASE i > Len(grammar.top) -> [s EXCEPT !.ret = FALSE]
    [] OTHER -> AfterRule(TraverseRuleTable(s0, grammar.top[i], mRootNode))

TraverseStmt(s) == TraverseStmtLoop(s, 1)

\* The state of the parser after an operator, written to the variables.  When
\* a MASSERT failed the program is gone in the state the assertion found.
Becomes(s) ==
  LET t == IF s.abort # "" THEN s.snap ELSE s IN
  /\ abort' = s.abort
  /\ mCurToken' = t.mCurToken
  /\ mEndOfFile' = t.mEndOfFile
  /\ mActiveTokens' = t.mActiveTokens
  /\ mLine' = t.mLine
  /\ gFailed' = t.gFailed
  /\ gSucc' = t.gSucc
  /\ mAppealNodes' = t.mAppealNodes
  /\ gSuccTokens' = t.gSuccTokens
  /\ calls' = t.calls
  /\ recs' = t.recs

Init ==
  /\ grammar \in Grammars
  /\ file \in grammar.files
  /\ pc = "ParseStmt"
  /\ mCurToken = 0
  /\ mEndOfFile = FALSE
  /\ mActiveTokens = <<>>
  /\ mLine = 0
  /\ gFailed = [r \in 1..RuleTableNum |-> <<>>]
  /\ gSucc = [r \in 1..RuleTableNum |-> <<>>]
  /\ mAppealNodes = <<>>
  /\ gSuccTokens = <<>>
  /\ calls = <<>>
  /\ recs = <<>>
  /\ begun = <<>>
  /\ out = <<>>
  /\ mTrees = <<>>
  /\ mRoundsOfPatching = 0
  /\ parseResult = "none"
  /\ abort = ""
  /\ mRecursionAll = <<>>
  /\ mRecDetector = NoDetector

\* Parser::Parse calls ParseStmt, which clears the per-construct state, sets
\* the root appeal node and lexes a line.  With no token left ParseStmt
\* returns false and so does Parse.
ParseStmt ==
  /\ pc = "ParseStmt"
  /\ \E s \in {LexOneLine([ClearSucc(ClearFailed(St)) EXCEPT
                             !.mAppealNodes = <<AppealNode>>,
                             !.calls = <<>>, !.recs = <<>>])} :
       /\ Becomes(s)
       /\ begun' = Append(begun, [mCurToken |-> s.mCurToken,
                                  mEndOfFile |-> s.mEndOfFile,
                                  gFailed |-> s.gFailed, gSucc |-> s.gSucc,
                                  mAppealNodes |-> s.mAppealNodes,
                                  token_num |-> s.num])
       /\ pc' = IF s.num = 0 THEN "Done" ELSE "TraverseStmt"
       /\ parseResult' = IF s.num = 0 THEN "false" ELSE parseResult
  /\ UNCHANGED <<grammar, mRecursionAll, mRecDetector, file, out, mTrees, mRoundsOfPatching>>

\* TraverseStmt matches the top rules and sorts the tree out; when no top
\* rule matches, ParseStmt returns false and Parse stops with it.
DoTraverseStmt ==
  /\ pc = "TraverseStmt"
  /\ \E s \in {TraverseStmt(St)} :
       /\ Becomes(s)
       /\ pc' = IF ~Ok(s) THEN "Aborted" ELSE IF s.ret THEN "PatchWasSucc" ELSE "Done"
       /\ out' = IF ~Ok(s) THEN out
                 ELSE IF s.ret THEN Append(out, <<"Matched ", s.mCurToken, " tokens.">>)
                 ELSE Append(out, <<"Illegal syntax detected!">>)
       /\ parseResult' = IF Ok(s) /\ ~s.ret THEN "false" ELSE parseResult
  /\ UNCHANGED <<grammar, mRecursionAll, mRecDetector, file, begun, mTrees, mRoundsOfPatching>>

\* One round of the loop of PatchWasSucc(mRootNode->mSortedChildren[0]).
DoPatchWasSucc ==
  /\ pc = "PatchWasSucc"
  /\ \E s \in {PatchWasSuccRound(St, mAppealNodes[mRootNode].mSortedChildren[1])} :
       /\ Becomes(s)
       /\ pc' = IF ~Ok(s) THEN "Aborted"
                ELSE IF s.ret THEN "PatchWasSucc" ELSE "SimplifySortedTree"
  /\ mRoundsOfPatching' = mRoundsOfPatching + 1
  /\ UNCHANGED <<grammar, mRecursionAll, mRecDetector, file, begun, out, mTrees, parseResult>>

DoSimplifySortedTree ==
  /\ pc = "SimplifySortedTree"
  /\ \E s \in {SimplifySortedTree(St)} :
       /\ Becomes(s)
       /\ pc' = IF ~Ok(s) THEN "Aborted" ELSE "BuildAST"
  /\ UNCHANGED <<grammar, mRecursionAll, mRecDetector, file, begun, out, mTrees, mRoundsOfPatching, parseResult>>

\* BuildAST and gModule.AddTree; ParseStmt returns true and Parse loops.
DoBuildAST ==
  /\ pc = "BuildAST"
  /\ \E tree \in {BuildAST(St)} :
       /\ mTrees' = IF tree.abort = "" THEN Append(mTrees, tree) ELSE mTrees
       /\ pc' = IF tree.abort = "" THEN "ParseStmt" ELSE "Aborted"
       /\ abort' = tree.abort
  /\ UNCHANGED <<grammar, mRecursionAll, mRecDetector, file, mCurToken, mEndOfFile, mActiveTokens, mLine, gFailed,
                 gSucc, mAppealNodes, gSuccTokens, calls, recs, begun, out,
                 mRoundsOfPatching, parseResult>>

Next ==
  \/ ParseStmt
  \/ DoTraverseStmt
  \/ DoPatchWasSucc
  \/ DoSimplifySortedTree
  \/ DoBuildAST

Spec == Init /\ [][Next]_vars


\* ------------------------------------------------------------------------
\* Properties.  Helpers shared by the properties below.
\* ------------------------------------------------------------------------
\* The valuable tokens of the whole file, in order.
RECURSIVE Flatten(_)
Flatten(f) == IF Len(f) = 0 THEN <<>> ELSE Valuable(Head(f)) \o Flatten(Tail(f))
Input == Flatten(file)

\* The nodes reachable from the top sorted node through mSortedChildren.
RECURSIVE ReachSorted(_, _)
ReachSorted(S, k) ==
  IF k = 0 THEN S
  ELSE ReachSorted(S \cup UNION {Range(mAppealNodes[n].mSortedChildren) : n \in S}, k - 1)

SortedTree ==
  IF Len(mAppealNodes) = 0 \/ Len(mAppealNodes[mRootNode].mSortedChildren) = 0 THEN {}
  ELSE ReachSorted({mAppealNodes[mRootNode].mSortedChildren[1]}, Len(mAppealNodes))

\* An end index read as the signed number it stands for: 0 - 1 is -1.
Signed(m) == IF m = UIntMax THEN -1 ELSE m

SetMax(S) == CHOOSE m \in S : \A x \in S : x <= m

\* ------------------------------------------------------------------------
\* C1: at every point of a top-level parse, for every rule table r and token
\* index t, t is never both in FailSet(r) and a start token of SuccMatch(r):
\* not in the state the parser is left in, and not at any return of
\* TraverseRuleTable.
\* ------------------------------------------------------------------------
C1_FailSetSuccMatchDisjoint ==
  /\ \A r \in 1..RuleTableNum : \A t \in DOMAIN gSucc[r] : ~InSeq(t, gFailed[r])
  /\ \A i \in DOMAIN calls : ~calls[i].both

\* ------------------------------------------------------------------------
\* C4: when the input holds no token (it is empty, or holds only whitespace
\* and comments), Parser::Parse returns success and the module holds no tree.
\* ------------------------------------------------------------------------
C4_EmptyInputSucceeds ==
  (pc = "Done" /\ Len(Input) = 0) => (parseResult = "true" /\ Len(mTrees) = 0)

\* ------------------------------------------------------------------------
\* C5: every call of TraverseRuleTable that returns false leaves the token
\* cursor where it was on entry, and every call that returns true with a
\* non-empty result set M leaves the cursor at max(M) + 1.
\* ------------------------------------------------------------------------
C5_CursorAfterMatch ==
  \A i \in DOMAIN calls :
    /\ ~calls[i].ret => calls[i].cur = calls[i].start
    /\ (calls[i].ret /\ Len(calls[i].M) > 0) =>
          calls[i].cur = SetMax({Signed(m) : m \in Range(calls[i].M)}) + 1

\* ------------------------------------------------------------------------
\* C7: for every appeal node with status Succ, at every start index (0
\* included), every end index of its match set is at least start - 1 and
\* less than the number of tokens in the token buffer.
\* ------------------------------------------------------------------------
C7_EndIndexRange ==
  \A n \in DOMAIN mAppealNodes :
    mAppealNodes[n].mAfter = "Succ" =>
      \A k \in DOMAIN mAppealNodes[n].mMatches :
        /\ mAppealNodes[n].mMatches[k] >= mAppealNodes[n].mStartIndex - 1
        /\ mAppealNodes[n].mMatches[k] < Len(mActiveTokens)

\* ------------------------------------------------------------------------
\* C10: when no top rule matches, the parser reports the farthest token
\* reached during matching and stops: the message it writes names that token
\* index, no later construct is parsed and Parse returns the error outcome.
\* ------------------------------------------------------------------------
\* The farthest token index any TraverseRuleTable call started at or left
\* the cursor at.
Farthest ==
  SetMax({0} \cup {calls[i].start : i \in DOMAIN calls}
             \cup {calls[i].cur : i \in DOMAIN calls})

SyntaxError ==
  /\ pc = "Done" /\ Len(out) > 0
  /\ out[Len(out)][1] = "Illegal syntax detected!"

RECURSIVE DescentRule(_, _)
RECURSIVE DescentData(_, _)
RECURSIVE DescentConcatenate(_, _, _)
RECURSIVE DescentZeroormore(_, _, _, _)

DescentFail == [ok |-> FALSE, ends |-> {}]
DescentSucc(E) == [ok |-> TRUE, ends |-> E]

\* The union of the end sets the child reaches from the starts after prevs.
DescentFrom(d, prevs) ==
  UNION {DescentData(d, Inc(p)).ends : p \in prevs}

DescentData(d, t) ==
  CASE d.mType = "DT_Token" ->
         IF t < Len(Input) /\ Input[t + 1] = d.mToken
         THEN DescentSucc({t}) ELSE DescentFail
    [] d.mType = "DT_Subtable" -> DescentRule(d.mEntry, t)
    [] OTHER -> DescentFail

\* Children i.. of a Concatenate, entered with the previous ends prevs.
DescentConcatenate(data, i, prevs) ==
  IF i > Len(data) THEN prevs
  ELSE LET got == DescentFrom(data[i], prevs)
                  \cup (IF IsZeroxxx(data[i]) THEN prevs ELSE {})
       IN IF got = {} THEN {} ELSE DescentConcatenate(data, i + 1, got)

\* The ends a ZeroOrMore reaches: frontier holds the ends of the last round.
DescentZeroormore(d, frontier, visited, ends) ==
  LET starts == {Inc(p) : p \in frontier} \ visited
      new    == UNION {DescentData(d, st).ends : st \in starts} \ ends
  IN IF new = {} THEN ends
     ELSE DescentZeroormore(d, new, visited \cup starts, ends \cup new)

DescentRule(r, t) ==
  LET type == Rule(r).mType
      data == Rule(r).mData
      zero == type \in {"ET_Zeroormore", "ET_Zeroorone"}
      alts == [i \in DOMAIN data |-> DescentData(data[i], t)]
      good == {i \in DOMAIN data : alts[i].ok}
      cat  == DescentConcatenate(data, 1, {Dec(t)})
  IN
  CASE r = TblIdentifier ->
         IF t < Len(Input) /\ IsIdentifier(Input[t + 1])
         THEN DescentSucc({t}) ELSE DescentFail
    [] r = TblLiteral ->
         IF t < Len(Input) /\ IsLiteral(Input[t + 1])
         THEN DescentSucc({t}) ELSE DescentFail
    [] ~zero /\ (t >= Len(Input) \/ LookAheadFail([mActiveTokens |-> Input], r, t)) ->
         DescentFail
    [] type = "ET_Oneof" ->
         IF good = {} THEN DescentFail
         ELSE IF "RP_Single" \in Rule(r).mProperties
         THEN alts[CHOOSE i \in good : \A j \in good : i <= j]
         ELSE DescentSucc(UNION {alts[i].ends : i \in good})
    [] type = "ET_Concatenate" ->
         IF cat = {} \/ (cat = {Dec(t)} /\ \A i \in DOMAIN data : IsZeroxxx(data[i]))
         THEN DescentFail ELSE DescentSucc(cat)
    [] type = "ET_Zeroormore" ->
         DescentSucc(DescentZeroormore(data[1], {Dec(t)}, {}, {}))
    [] type = "ET_Zeroorone" -> DescentSucc(DescentData(data[1], t).ends)
    [] type = "ET_Data" /\ Len(data) = 1 -> DescentData(data[1], t)
    [] OTHER -> DescentFail

C2_MatchEqualsDescent ==
  Len(grammar.groups) = 0 =>
    /\ \A i \in DOMAIN calls :
         LET d == DescentRule(calls[i].rule, calls[i].start) IN
         /\ calls[i].ret = d.ok
         /\ calls[i].ret => Range(calls[i].M) = d.ends
    /\ \A r \in 1..RuleTableNum : \A t \in DOMAIN gSucc[r] :
         LET d == DescentRule(r, t) IN
         d.ok /\ Range(gSucc[r][t].matches) = d.ends

\* The same, for the calls made before the end of the file was reached.
C2_BeforeEndOfFile ==
  Len(grammar.groups) = 0 =>
    \A i \in DOMAIN calls :
      LET d == DescentRule(calls[i].rule, calls[i].start) IN
      ~calls[i].eof =>
        /\ calls[i].ret = d.ok
        /\ calls[i].ret => Range(calls[i].M) = d.ends

\* ------------------------------------------------------------------------
\* C3: every recursion traversal of a LeadNode at a start token runs finitely
\* many instances: each instance between the first and the last reaches an
\* end index the instance before it did not, the last one adds none, and
\* then the LeadNode's SuccMatch entry for the start token is marked done.
\* For Add : Identifier | Add '+' Identifier on  id + id + id  that is three
\* productive instances, which reach the ends 0, 2 and 4 in turn, and a
\* fourth that ends the traversal.
\* ------------------------------------------------------------------------
ThreeAdds == <<"id", "+", "id", "+", "id">>

EmptyCaches(b) ==
  /\ b.gFailed = [r \in 1..RuleTableNum |-> <<>>]
  /\ b.gSucc = [r \in 1..RuleTableNum |-> <<>>]
  /\ b.mAppealNodes = <<AppealNode>>

IsConcatenate(n) ==
  /\ mAppealNodes[n].mIsTable
  /\ Rule(mAppealNodes[n].mTable).mType = "ET_Concatenate"
  /\ Len(mAppealNodes[n].mMatches) > 0

Covers(n) ==
  LET p  == mAppealNodes[n]
      sc == p.mSortedChildren
  IN /\ Len(sc) > 0
     /\ mAppealNodes[sc[1]].mStartIndex = p.mStartIndex
     /\ \A i \in 2..Len(sc) :
          mAppealNodes[sc[i]].mStartIndex = mAppealNodes[sc[i - 1]].mFinalMatch + 1
     /\ mAppealNodes[sc[Len(sc)]].mFinalMatch = p.mFinalMatch

C8_ConcatenateCover ==
  /\ pc = "PatchWasSucc" =>
       \A n \in SortedTree :
         (IsConcatenate(n) /\ mAppealNodes[n].mAfter # "SuccWasSucc") => Covers(n)
  /\ pc \in {"SimplifySortedTree", "BuildAST"} =>
       \A n \in SortedTree : IsConcatenate(n) => Covers(n)

\* A sorted tree holds a Concatenate node with three sorted children.
C8_Witness ==
  /\ pc = "SimplifySortedTree"
  /\ \E n \in SortedTree :
        IsConcatenate(n) /\ Len(mAppealNodes[n].mSortedChildren) >= 3

\* ------------------------------------------------------------------------
\* C9: PatchWasSucc terminates, and when it has returned no node reachable
\* from the top sorted node through the sorted children is SuccWasSucc.
\* Termination: every round of its loop that does not leave the loop leaves
\* fewer SuccWasSucc nodes in the arena than it found.
\* ------------------------------------------------------------------------
WasSuccLeft ==
  Cardinality({n \in DOMAIN mAppealNodes : mAppealNodes[n].mAfter = "SuccWasSucc"})

C9_PatchWasSuccTerminatesClean ==
  /\ [][(pc = "PatchWasSucc" /\ pc' = "PatchWasSucc") => WasSuccLeft' < WasSuccLeft]_vars
  /\ [](pc = "SimplifySortedTree" =>
          \A n \in SortedTree : mAppealNodes[n].mAfter # "SuccWasSucc")

\* PatchWasSucc has returned and the tree holds a node it patched: a table
\* node with sorted children and no children of its own.
C9_Witness ==
  /\ pc = "SimplifySortedTree"
  /\ \E n \in SortedTree :
        /\ mAppealNodes[n].mIsTable /\ mAppealNodes[n].mAfter = "Succ"
        /\ Len(mAppealNodes[n].mChildren) = 0
        /\ Len(mAppealNodes[n].mSortedChildren) > 0

\* ------------------------------------------------------------------------
\* C11: a top rule is accepted only with exactly one end index at its start
\* token; when a successful top rule holds more than one, the parse of the
\* construct stops at the fatal assertion and neither a sorted tree nor an
\* AST tree is made for it.
\* ------------------------------------------------------------------------
Ambiguous == "TraverseStmt: topnode->GetMatchNum() == 1"

\* The last return of TraverseRuleTable is the one of the top rule.
TopCallSucceeded ==
  /\ Len(calls) > 0
  /\ calls[Len(calls)].rule \in Range(grammar.top)
  /\ calls[Len(calls)].ret
  /\ mAppealNodes[calls[Len(calls)].node].mParent = mRootNode

TopMatchNum == Len(mAppealNodes[calls[Len(calls)].node].mMatches)

C11_TopRuleSingleEnd ==
  /\ pc \in {"PatchWasSucc", "SimplifySortedTree", "BuildAST"} =>
       TopCallSucceeded /\ TopMatchNum = 1
  /\ (pc # "ParseStmt" /\ pc # "TraverseStmt" /\ TopCallSucceeded /\ TopMatchNum > 1) =>
       /\ pc = "Aborted" /\ abort = Ambiguous
       /\ mAppealNodes[mRootNode].mSortedChildren = <<>>
       /\ Len(mTrees) = Len(begun) - 1
       /\ Len(out) = Len(mTrees)

C11_Witness ==
  pc = "Aborted" /\ abort = Ambiguous /\ TopCallSucceeded /\ TopMatchNum > 1

\* ------------------------------------------------------------------------
\* C12: when a rule action is invoked, the parameter gathered for element
\* index i comes from the sorted child in grammar slot i of the rule, and is
\* empty when slot i has no sorted child; also for a rule in which the same
\* rule table or token stands in more than one slot.  Stated for what can be
\* read off the tree: a parameter is empty or a sorted child of the node, and
\* in a Concatenate node with one sorted child per slot the parameter for
\* element i is the i-th sorted child.
\* ------------------------------------------------------------------------
BuiltTree == pc = "ParseStmt" /\ Len(mTrees) > 0

\* One sorted child for every slot of a Concatenate rule: child i is slot i.
EverySlotFilled(n) ==
  /\ mAppealNodes[n].mIsTable
  /\ Rule(mAppealNodes[n].mTable).mType = "ET_Concatenate"
  /\ Len(mAppealNodes[n].mSortedChildren) = Len(Rule(mAppealNodes[n].mTable).mData)

ParamFromSlot(n, param, i) ==
  LET sc == mAppealNodes[n].mSortedChildren IN
  /\ param = 0 \/ param \in Range(sc)
  /\ Len(sc) = 0 => param = 0
  /\ EverySlotFilled(n) => param = IF i \in DOMAIN sc THEN sc[i] ELSE 0

C12_DistinctSlots ==
  BuiltTree =>
    LET pars == mTrees[Len(mTrees)].mParams IN
    \A n \in DOMAIN pars : \A a \in DOMAIN pars[n] : \A j \in DOMAIN pars[n][a] :
      (\A x, y \in DOMAIN Rule(mAppealNodes[n].mTable).mData :
          Rule(mAppealNodes[n].mTable).mData[x] = Rule(mAppealNodes[n].mTable).mData[y]
            => x = y)
      => ParamFromSlot(n, pars[n][a][j],
                       Rule(mAppealNodes[n].mTable).mActions[a].mElems[j])

\* ------------------------------------------------------------------------
\* AST nodes built for a rule without a tree-building action
\* ------------------------------------------------------------------------
\* supported_operators.def
gOperatorDesc ==
  << [mOprId |-> "OPR_Add", mDesc |-> {"Binary", "Unary"}],
     [mOprId |-> "OPR_Sub", mDesc |-> {"Binary", "Unary"}],
     [mOprId |-> "OPR_Mul", mDesc |-> {"Binary"}],
     [mOprId |-> "OPR_Div", mDesc |-> {"Binary"}],
     [mOprId |-> "OPR_Mod", mDesc |-> {"Binary"}],
     [mOprId |-> "OPR_Inc", mDesc |-> {"Pre", "Post"}],
     [mOprId |-> "OPR_Dec", mDesc |-> {"Pre", "Post"}],
     [mOprId |-> "OPR_EQ", mDesc |-> {"Binary"}],
     [mOprId |-> "OPR_NE", mDesc |-> {"Binary"}],
     [mOprId |-> "OPR_GT", mDesc |-> {"Binary"}],
     [mOprId |-> "OPR_LT", mDesc |-> {"Binary"}],
     [mOprId |-> "OPR_GE", mDesc |-> {"Binary"}],
     [mOprId |-> "OPR_LE", mDesc |-> {"Binary"}],
     [mOprId |-> "OPR_Band", mDesc |-> {"Binary"}],
     [mOprId |-> "OPR_Bor", mDesc |-> {"Binary"}],
     [mOprId |-> "OPR_Bxor", mDesc |-> {"Unary"}],
     [mOprId |-> "OPR_Bcomp", mDesc |-> {"Unary"}],
     [mOprId |-> "OPR_Shl", mDesc |-> {"Binary"}],
     [mOprId |-> "OPR_Shr", mDesc |-> {"Binary"}],
     [mOprId |-> "OPR_Zext", mDesc |-> {"Binary"}],
     [mOprId |-> "OPR_Land", mDesc |-> {"Binary"}],
     [mOprId |-> "OPR_Lor", mDesc |-> {"Binary"}],
     [mOprId |-> "OPR_Not", mDesc |-> {"Unary"}],
     [mOprId |-> "OPR_Assign", mDesc |-> {"Binary"}],
     [mOprId |-> "OPR_AddAssign", mDesc |-> {"Binary"}],
     [mOprId |-> "OPR_SubAssign", mDesc |-> {"Binary"}],
     [mOprId |-> "OPR_MulAssign", mDesc |-> {"Binary"}],
     [mOprId |-> "OPR_DivAssign", mDesc |-> {"Binary"}],
     [mOprId |-> "OPR_ModAssign", mDesc |-> {"Binary"}],
     [mOprId |-> "OPR_ShlAssign", mDesc |-> {"Binary"}],
     [mOprId |-> "OPR_ShrAssign", mDesc |-> {"Binary"}],
     [mOprId |-> "OPR_BandAssign", mDesc |-> {"Binary"}],
     [mOprId |-> "OPR_BorAssign", mDesc |-> {"Binary"}],
     [mOprId |-> "OPR_BxorAssign", mDesc |-> {"Binary"}],
     [mOprId |-> "OPR_ZextAssign", mDesc |-> {"Binary"}],
     [mOprId |-> "OPR_Arrow", mDesc |-> {"Binary"}],
     [mOprId |-> "OPR_Select", mDesc |-> {"Ternary"}],
     [mOprId |-> "OPR_Cond", mDesc |-> {"Ternary"}] >>

GetOperatorProperty(id) ==
  gOperatorDesc[CHOOSE i \in DOMAIN gOperatorDesc : gOperatorDesc[i].mOprId = id].mDesc

\* TreeNode: NullTree stands for the NULL pointer.
NullTree == [mKind |-> "NULL"]
IsParenthesis(t) == t.mKind = "NK_Parenthesis"
IsUnaOperator(t) == t.mKind = "NK_UnaOperator"

BuildBinaryOperation(childA, childB, id) ==
  [mKind |-> "NK_BinOperator", mOprId |-> id, mOpndA |-> childA, mOpndB |-> childB]

BuildPassNode(children) == [mKind |-> "NK_Pass", mChildren |-> children]

Manipulate2Cast(child_a, child_b) ==
  IF IsParenthesis(child_a)
  THEN [mKind |-> "NK_Cast", mDestType |-> child_a.mExpr, mExpr |-> child_b]
  ELSE NullTree

Manipulate2Binary(child_a, child_b) ==
  IF IsUnaOperator(child_b)
  THEN LET property == GetOperatorProperty(child_b.mOprId) IN
       IF "Binary" \in property /\ "Unary" \in property
       THEN BuildBinaryOperation(child_a, child_b.mOpnd, child_b.mOprId)
       ELSE NullTree
  ELSE NullTree

\* The AST nodes of the sorted children of appeal_node, in order.
ChildTrees(nodes, appeal_node) ==
  LET sc == nodes[appeal_node].mSortedChildren IN
  SelectSeq([i \in DOMAIN sc |-> nodes[sc[i]].mAstTreeNode], LAMBDA t : t # NullTree)

Manipulate(nodes, appeal_node) ==
  LET child_trees == ChildTrees(nodes, appeal_node) IN
  IF Len(child_trees) = 1 THEN child_trees[1]
  ELSE IF Len(child_trees) = 2 /\ Manipulate2Cast(child_trees[1], child_trees[2]) # NullTree
  THEN Manipulate2Cast(child_trees[1], child_trees[2])
  ELSE IF Len(child_trees) = 2 /\ Manipulate2Binary(child_trees[1], child_trees[2]) # NullTree
  THEN Manipulate2Binary(child_trees[1], child_trees[2])
  ELSE IF Len(child_trees) > 0 THEN BuildPassNode(child_trees)
  ELSE NullTree

\* The tree nodes the children of a rule node may carry: what the front end's
\* actions and CreateTokenTreeNode have built for them, or none.
MaxChildren == 3
TokenTrees == {[mKind |-> "NK_Identifier"], [mKind |-> "NK_Literal"],
               [mKind |-> "NK_PrimType"]}
SubTrees ==
  {NullTree, [mKind |-> "NK_Block"]} \cup TokenTrees
  \cup {[mKind |-> "NK_Parenthesis", mExpr |-> e] :
          e \in {[mKind |-> "NK_PrimType"], [mKind |-> "NK_Literal"]}}
  \cup {[mKind |-> "NK_UnaOperator", mOprId |-> o, mOpnd |-> [mKind |-> "NK_Identifier"]] :
          o \in {"OPR_Add", "OPR_Not", "OPR_Inc"}}

\* A rule node with no action whose sorted children have their tree nodes:
\* BuildAST is about to call NewTreeNode on it.
InitManipulate ==
  /\ grammar = GCat
  /\ file = <<>>
  /\ pc = "NewTreeNode"
  /\ mCurToken = 0
  /\ mEndOfFile = FALSE
  /\ mActiveTokens = <<>>
  /\ mLine = 0
  /\ gFailed = <<>>
  /\ gSucc = <<>>
  /\ \E n \in 0..MaxChildren : \E trees \in [1..n -> SubTrees] :
       mAppealNodes =
         <<[mSortedChildren |-> [i \in 1..n |-> i + 1], mAstTreeNode |-> NullTree]>>
         \o [i \in 1..n |-> [mSortedChildren |-> <<>>, mAstTreeNode |-> trees[i]]]
  /\ gSuccTokens = <<>>
  /\ calls = <<>>
  /\ recs = <<>>
  /\ begun = <<>>
  /\ out = <<>>
  /\ mTrees = <<>>
  /\ mRoundsOfPatching = 0
  /\ parseResult = "none"
  /\ abort = ""
  /\ mRecursionAll = <<>>
  /\ mRecDetector = NoDetector

\* NewTreeNode on a rule with no action: sub_tree = Manipulate(appeal_node),
\* stored as the node's tree.
DoManipulate ==
  /\ pc = "NewTreeNode"
  /\ mAppealNodes' = [mAppealNodes EXCEPT ![1].mAstTreeNode = Manipulate(mAppealNodes, 1)]
  /\ pc' = "Done"
  /\ UNCHANGED <<grammar, mRecursionAll, mRecDetector, file, mCurToken, mEndOfFile, mActiveTokens, mLine, gFailed,
                 gSucc, gSuccTokens, calls, recs, begun, out, mTrees,
                 mRoundsOfPatching, parseResult, abort>>

SpecManipulate == InitManipulate /\ [][DoManipulate]_vars

\* ------------------------------------------------------------------------
\* C13: for a rule node whose actions produce no AST node, the builder
\* collects the AST nodes of its sorted children in order and returns nothing
\* if there are none, the child itself if there is one, for two children a
\* Cast when the first is a parenthesised type followed by an expression,
\* otherwise a BinaryOp of the first child and the unary's operand when the
\* second is a unary operation whose operator also has binary semantics, and
\* in every other case a Pass node holding all the children in order.
\* ------------------------------------------------------------------------
Collected ==
  LET sc == mAppealNodes[1].mSortedChildren
      RECURSIVE Coll(_)
      Coll(i) == IF i > Len(sc) THEN <<>>
                 ELSE IF mAppealNodes[sc[i]].mAstTreeNode.mKind = "NULL" THEN Coll(i + 1)
                 ELSE <<mAppealNodes[sc[i]].mAstTreeNode>> \o Coll(i + 1)
  IN Coll(1)

IsType(t) == t.mKind \in {"NK_PrimType", "NK_UserType"}
BinaryAndUnary == {"OPR_Add", "OPR_Sub"}

Manipulated(kids, castable) ==
  CASE Len(kids) = 0 -> [mKind |-> "NULL"]
    [] Len(kids) = 1 -> kids[1]
    [] Len(kids) = 2 /\ kids[1] \in castable ->
         [mKind |-> "NK_Cast", mDestType |-> kids[1].mExpr, mExpr |-> kids[2]]
    [] Len(kids) = 2 /\ kids[1] \notin castable /\ kids[2].mKind = "NK_UnaOperator"
         /\ kids[2].mOprId \in BinaryAndUnary ->
         [mKind |-> "NK_BinOperator", mOprId |-> kids[2].mOprId,
          mOpndA |-> kids[1], mOpndB |-> kids[2].mOpnd]
    [] OTHER -> [mKind |-> "NK_Pass", mChildren |-> kids]

C13_CastForAnyParenthesis ==
  pc = "Done" =>
    mAppealNodes[1].mAstTreeNode =
      Manipulated(Collected, {t \in SubTrees : t.mKind = "NK_Parenthesis"})

C13_Witness ==
  /\ pc = "Done"
  /\ Len(Collected) = 2
  /\ Collected[1].mKind = "NK_Parenthesis" /\ ~IsType(Collected[1].mExpr)
  /\ mAppealNodes[1].mAstTreeNode.mKind = "NK_Cast"

\* ------------------------------------------------------------------------
\* C14: for a Oneof rule with property Single, once one child has succeeded
\* no later child is attempted, and the rule's result is exactly that first
\* successful child's end set.  Read off the appeal tree: the children of a
\* traversed Single node are the attempts of its alternatives 1, 2, ... in
\* order, every one but the last has failed, and the node succeeded exactly
\* when the last one did, with the same end set.
\* ------------------------------------------------------------------------
Succeeded == {"Succ", "SuccWasSucc", "SuccStillWasSucc"}

SingleNodes ==
  {n \in DOMAIN mAppealNodes :
     /\ mAppealNodes[n].mIsTable /\ mAppealNodes[n].mTable # 0
     /\ Rule(mAppealNodes[n].mTable).mType = "ET_Oneof"
     /\ "RP_Single" \in Rule(mAppealNodes[n].mTable).mProperties
     /\ mAppealNodes[n].mChildren # <<>>}

C14_SingleStopsAtFirstSuccess ==
  \A n \in SingleNodes :
    LET p    == mAppealNodes[n]
        ch   == p.mChildren
        data == Rule(p.mTable).mData
        last == mAppealNodes[ch[Len(ch)]]
    IN /\ Len(ch) <= Len(data)
       /\ \A i \in DOMAIN ch :
            /\ mAppealNodes[ch[i]].mTable = data[i].mEntry
            /\ mAppealNodes[ch[i]].mStartIndex = p.mStartIndex
            /\ i < Len(ch) => mAppealNodes[ch[i]].mAfter \notin Succeeded
       /\ (p.mAfter \in Succeeded) = (last.mAfter \in Succeeded)
       /\ p.mAfter \in Succeeded => Range(p.mMatches) = Range(last.mMatches)

\* `x y ...`: A fails, B succeeds with end 0 and C, which matches `x y`, is
\* not tried.
C14_Witness ==
  \E n \in SingleNodes :
    /\ mAppealNodes[n].mAfter = "Succ"
    /\ Len(mAppealNodes[n].mChildren) = 2
    /\ mAppealNodes[n].mMatches = <<0>>
    /\ Len(mActiveTokens) >= 2 /\ mActiveTokens[2] = "y"

\* ------------------------------------------------------------------------
\* Recursion descriptors (Parser::InitRecursion)
\* ------------------------------------------------------------------------
FronNode(pos, type, data) == [mPos |-> pos, mType |-> type, mData |-> data]

\* r: the rule tables and the Recursion under construction,
\*    [rules, mLeadNode, mRecursionNodes, mLeadFronNodes, mFronNodes, abort]
Merror(r, msg) == IF r.abort = "" THEN [r EXCEPT !.abort = msg] ELSE r

RuleFindChildAtIndex(rules, parent, index) ==
  LET data == IF rules[parent].mType \in {"ET_Concatenate", "ET_Oneof"}
              THEN rules[parent].mData[index + 1]
              ELSE rules[parent].mData[1]
  IN CASE data.mType = "DT_Subtable" -> FronNode(0, "FNT_Rule", data.mEntry)
       [] data.mType = "DT_Token"    -> FronNode(0, "FNT_Token", data.mToken)
       [] OTHER                      -> FronNode(0, "MERROR", 0)

\* A circle is <<len, child index, ..., child index>>, the indices 0-based.
FindRecursionNodes(r0, lr) ==
  LET lead == lr.mRuleTable
      RECURSIVE OnCircle(_, _, _, _)
      OnCircle(r, circle, j, prev) ==
        IF j > circle[1] \/ r.abort # "" THEN r
        ELSE LET node == RuleFindChildAtIndex(r.rules, prev, circle[j + 1])
                 rt   == node.mData
             IN IF node.mType # "FNT_Rule" THEN Merror(r, "node.mType == FNT_Rule")
                ELSE IF j = circle[1]
                THEN IF rt = lead THEN r ELSE Merror(r, "rt == mLeadNode")
                ELSE OnCircle(IF InSeq(rt, r.mRecursionNodes) THEN r
                              ELSE [r EXCEPT !.mRecursionNodes = Append(@, rt)],
                              circle, j + 1, rt)
      RECURSIVE Circles(_, _)
      Circles(r, i) ==
        IF i > Len(lr.mCircles) THEN r
        ELSE Circles(OnCircle(r, lr.mCircles[i], 1, lead), i + 1)
  IN Circles([r0 EXCEPT !.mRecursionNodes = <<lead>>], 1)

\* `else if (data->mType = DT_Subtable)`: the entry's type is assigned, not
\* compared, and the entry is read as a rule table from then on.
AssignSubtable(r, rt, i) == [r EXCEPT !.rules[rt].mData[i].mType = "DT_Subtable"]

\* data->mData.mEntry: junk is what the union gives for an entry that held no
\* rule table.
EntryAsTable(data, junk) == IF data.mType = "DT_Subtable" THEN data.mEntry ELSE junk

FindLeadFronNodes(r0, lr, junk) ==
  LET lead == lr.mRuleTable
      type == r0.rules[lead].mType
      circle_indices == [i \in DOMAIN lr.mCircles |-> lr.mCircles[i][2]]
      found == \E k \in DOMAIN circle_indices : k - 1 = circle_indices[k]
      RECURSIVE Oneof(_, _)
      Oneof(r, i) ==
        IF i > Len(r.rules[lead].mData) THEN r
        ELSE LET data == r.rules[lead].mData[i] IN
             IF data.mType = "DT_Token"
             THEN Oneof([r EXCEPT !.mLeadFronNodes =
                                    Append(@, FronNode(0, "FNT_Token", data.mToken))],
                        i + 1)
             ELSE Oneof([AssignSubtable(r, lead, i) EXCEPT
                           !.mLeadFronNodes =
                              IF found THEN @
                              ELSE Append(@, FronNode(0, "FNT_Rule",
                                                      EntryAsTable(data, junk)))],
                        i + 1)
      RECURSIVE Concatenate(_, _)
      Concatenate(r, i) ==
        IF i > Len(lr.mCircles) \/ r.abort # "" THEN r
        ELSE IF lr.mCircles[i][1] < 2 THEN Merror(r, "Circle has no nodes?")
        ELSE Concatenate(
               IF lr.mCircles[i][2] < Len(r.rules[lead].mData) - 1
               THEN [r EXCEPT !.mLeadFronNodes =
                                Append(@, FronNode(0, "FNT_Concat", lr.mCircles[i][2] + 1))]
               ELSE r,
               i + 1)
  IN CASE r0.abort # "" -> r0
       [] type = "ET_Oneof" ->
            IF \E i \in DOMAIN lr.mCircles : lr.mCircles[i][1] < 2
            THEN Merror(r0, "Circle has no nodes?")
            ELSE Oneof(r0, 1)
       [] type \in {"ET_Zeroormore", "ET_Zeroorone", "ET_Data"} ->
            IF Len(r0.rules[lead].mData) # 1
            THEN Merror(r0, "zeroorxxx node has more than one elements?")
            ELSE Merror(r0, "(mCircles[0] == 1) && (mCircles[1] == 0)")
       [] type = "ET_Concatenate" -> Concatenate(r0, 1)
       [] OTHER -> Merror(r0, "Wrong node type in a circle")

\* FindFronNodes() and FindFronNodes(circle_index); the circles are numbered
\* from 1 here.
\* fron_nodes is mFronNodes.ValueAtIndex(circle_index), which does not check
\* the index: past the lists that Init allocated it is a word that memory
\* happens to hold (junk), and PushBack through it faults (junk 0) or writes
\* to memory that is no list of this Recursion.
FindFronNodes(r0, lr, junk) ==
  LET Push(r, circle_index, fnode) ==
        IF circle_index \in DOMAIN r.mFronNodes
        THEN [r EXCEPT !.mFronNodes[circle_index] = Append(@, fnode)]
        ELSE IF junk = 0 THEN Merror(r, "fron_nodes->PushBack: invalid pointer")
        ELSE r
      RECURSIVE Oneof(_, _, _, _, _, _)
      Oneof(r, prev, next, j, circle_index, i) ==
        IF i > Len(r.rules[prev].mData) THEN r
        ELSE LET data == r.rules[prev].mData[i] IN
             IF data.mType = "DT_Token"
             THEN Oneof(Push(r, circle_index, FronNode(j, "FNT_Token", data.mToken)),
                        prev, next, j, circle_index, i + 1)
             ELSE LET ruletable == EntryAsTable(data, junk) IN
                  Oneof(IF ~InSeq(ruletable, r.mRecursionNodes) /\ ruletable # next
                        THEN Push(AssignSubtable(r, prev, i), circle_index,
                                  FronNode(j, "FNT_Rule", ruletable))
                        ELSE AssignSubtable(r, prev, i),
                        prev, next, j, circle_index, i + 1)
      RECURSIVE OnCircle(_, _, _, _)
      OnCircle(r, circle_index, j, prev) ==
        LET circle == lr.mCircles[circle_index] IN
        IF j > circle[1] \/ r.abort # "" THEN r
        ELSE LET child_index == circle[j + 1]
                 node == RuleFindChildAtIndex(r.rules, prev, child_index)
                 next == node.mData
                 prev_type == r.rules[prev].mType
             IN CASE node.mType # "FNT_Rule" -> Merror(r, "node.mType == FNT_Rule")
                  [] j = circle[1] /\ next # lr.mRuleTable ->
                       Merror(r, "next == mLeadNode")
                  [] j = 1 -> OnCircle(r, circle_index, j + 1, next)
                  [] prev_type = "ET_Oneof" ->
                       OnCircle(Oneof(r, prev, next, j, circle_index, 1),
                                circle_index, j + 1, next)
                  [] prev_type \in {"ET_Zeroormore", "ET_Zeroorone", "ET_Data"} ->
                       IF Len(r.rules[prev].mData) # 1
                       THEN Merror(r, "zeroorxxx node has more than one elements?")
                       ELSE IF child_index # 0 THEN Merror(r, "child_index == 0")
                       ELSE OnCircle(r, circle_index, j + 1, next)
                  [] prev_type = "ET_Concatenate" ->
                       OnCircle(IF child_index < Len(r.rules[prev].mData) - 1
                                THEN Push(r, circle_index,
                                          FronNode(j, "FNT_Concat", child_index + 1))
                                ELSE r,
                                circle_index, j + 1, next)
                  [] OTHER -> Merror(r, "Wrong node type in a circle")
      RECURSIVE Circles(_, _)
      Circles(r, i) ==
        IF i > Len(lr.mCircles) THEN r
        ELSE Circles(OnCircle(r, i, 1, lr.mRuleTable), i + 1)
  IN Circles(r0, 1)

\* Recursion::Init: one vector of FronNodes per left recursion of the
\* grammar, then the recursion nodes, the LeadFronNodes and the FronNodes.
RecursionInit(rules, lr, gLeftRecursionsNum, junk) ==
  FindFronNodes(
    FindLeadFronNodes(
      FindRecursionNodes([rules |-> rules, mLeadNode |-> lr.mRuleTable,
                          mRecursionNodes |-> <<>>, mLeadFronNodes |-> <<>>,
                          mFronNodes |-> [i \in 1..gLeftRecursionsNum |-> <<>>],
                          abort |-> ""],
                         lr),
      lr, junk),
    lr, junk)

\* RecursionAll::Init: a Recursion for every left recursion, in order.
\* a: [rules, mRecursions, abort]
RECURSIVE RecursionAllInit(_, _, _, _)
RecursionAllInit(a, lrs, i, junk) ==
  IF i > Len(lrs) \/ a.abort # "" THEN a
  ELSE LET rec == RecursionInit(a.rules, lrs[i], Len(lrs), junk) IN
       RecursionAllInit([rules |-> rec.rules,
                         mRecursions |-> Append(a.mRecursions,
                                                [f \in DOMAIN rec \ {"rules", "abort"} |-> rec[f]]),
                         abort |-> rec.abort],
                        lrs, i + 1, junk)

\* Grammar "lead": S : E ';' ; E : ONEOF(d1, F) ; F : ONEOF(d2, E_sub) ;
\*                 E_sub : E '+' Identifier
\* E is the lead node of the circle E -> F -> E_sub -> E.
GLead(d1, d2) ==
  [name   |-> "lead",
   rules  |-> << Leaf, Leaf,
                 RT("ET_Concatenate", <<Sub(4), Tok(";")>>, {}, <<>>),
                 RT("ET_Oneof", <<d1, Sub(5)>>, {}, <<>>),
                 RT("ET_Oneof", <<d2, Sub(6)>>, {}, <<>>),
                 RT("ET_Concatenate", <<Sub(4), Tok("+"), Sub(TblIdentifier)>>, {}, <<>>) >>,
   top    |-> <<3>>,
   la     |-> << {"LA_Identifier"}, {"LA_Literal"}, {"LA_Identifier"},
                 {"LA_Identifier"}, {"LA_Identifier"}, {"LA_Identifier"} >>,
   lead   |-> {4},
   groups |-> << {4, 5, 6} >>,
   gLeftRecursions |-> <<[mRuleTable |-> 4, mCircles |-> << <<3, 1, 1, 0>> >>]>>,
   files  |-> ChainFiles({"+"}, 1)]

\* What d1 and d2 may be: a sub-table, a token, a character, a type.
LeadEntries == {Sub(TblIdentifier), Sub(TblLiteral), Tok("("), Chr,
                [mType |-> "DT_Type", mToken |-> "", mEntry |-> 0]}

\* The parser is constructed; InitRecursion has not run yet.
InitInitRecursion ==
  /\ grammar \in {GAdd, GExpr} \cup {GLead(d1, d2) : d1, d2 \in LeadEntries}
  /\ file \in grammar.files
  /\ pc = "InitRecursion"
  /\ mCurToken = 0
  /\ mEndOfFile = FALSE
  /\ mActiveTokens = <<>>
  /\ mLine = 0
  /\ gFailed = [r \in 1..RuleTableNum |-> <<>>]
  /\ gSucc = [r \in 1..RuleTableNum |-> <<>>]
  /\ mAppealNodes = <<>>
  /\ gSuccTokens = <<>>
  /\ calls = <<>>
  /\ recs = <<>>
  /\ begun = <<>>
  /\ out = <<>>
  /\ mTrees = <<>>
  /\ mRoundsOfPatching = 0
  /\ parseResult = "none"
  /\ abort = ""
  /\ mRecursionAll = <<>>
  /\ mRecDetector = NoDetector

InitRecursion ==
  /\ pc = "InitRecursion"
  /\ \E junk \in 0..RuleTableNum :
       \E a \in {RecursionAllInit([rules |-> grammar.rules, mRecursions |-> <<>>,
                                   abort |-> ""],
                                  grammar.gLeftRecursions, 1, junk)} :
         /\ grammar' = [grammar EXCEPT !.rules = a.rules]
         /\ mRecursionAll' = a.mRecursions
         /\ abort' = a.abort
         /\ pc' = IF a.abort = "" THEN "ParseStmt" ELSE "Aborted"
  /\ UNCHANGED <<mRecDetector, file, mCurToken, mEndOfFile, mActiveTokens, mLine, gFailed, gSucc,
                 mAppealNodes, gSuccTokens, calls, recs, begun, out, mTrees,
                 mRoundsOfPatching, parseResult>>

SpecInitRecursion == InitInitRecursion /\ [][InitRecursion]_vars

C15_OnlyTypeOfOneofEntries ==
  [][\A rt \in DOMAIN grammar.rules :
       /\ DOMAIN grammar'.rules = DOMAIN grammar.rules
       /\ [grammar' EXCEPT !.rules = grammar.rules] = grammar
       /\ [grammar'.rules[rt] EXCEPT !.mData = grammar.rules[rt].mData] = grammar.rules[rt]
       /\ DOMAIN grammar'.rules[rt].mData = DOMAIN grammar.rules[rt].mData
       /\ \A i \in DOMAIN grammar.rules[rt].mData :
            \/ grammar'.rules[rt].mData[i] = grammar.rules[rt].mData[i]
            \/ /\ grammar.rules[rt].mType = "ET_Oneof"
               /\ grammar.rules[rt].mData[i].mType \notin {"DT_Token", "DT_Subtable"}
               /\ grammar'.rules[rt].mData[i] =
                    [grammar.rules[rt].mData[i] EXCEPT !.mType = "DT_Subtable"]]_vars

\* ------------------------------------------------------------------------
\* C16: after sort-out, every node reachable from the root through
\* sorted-children links has a success status; no such node has a Fail*
\* status.
\* ------------------------------------------------------------------------
SortedOut == pc \in {"PatchWasSucc", "SimplifySortedTree", "BuildAST"} \/ BuiltTree

C16_SortedTreeAllSucc ==
  SortedOut =>
    \A n \in ReachSorted({mRootNode}, Len(mAppealNodes)) :
      /\ mAppealNodes[n].mAfter \in {"Succ", "SuccWasSucc", "SuccStillWasSucc"}
      /\ mAppealNodes[n].mAfter \notin FailStatus

\* Sort-out has left a failed child of a node of the sorted tree aside.
C16_Witness ==
  /\ pc = "PatchWasSucc"
  /\ \E n \in SortedTree : \E c \in Range(mAppealNodes[n].mChildren) :
       /\ mAppealNodes[c].mAfter \in FailStatus
       /\ c \notin SortedTree

\* ------------------------------------------------------------------------
\* C17: for every Zeroormore node in a sorted tree, its sorted children have
\* pairwise distinct start indices.
\* ------------------------------------------------------------------------
IsZeroormore(n) ==
  /\ mAppealNodes[n].mIsTable /\ mAppealNodes[n].mTable # 0
  /\ Rule(mAppealNodes[n].mTable).mType = "ET_Zeroormore"

C17_ZeroormoreDistinctStarts ==
  SortedOut =>
    \A n \in SortedTree :
      IsZeroormore(n) =>
        \A i, j \in DOMAIN mAppealNodes[n].mSortedChildren :
          i # j => mAppealNodes[mAppealNodes[n].mSortedChildren[i]].mStartIndex
                   # mAppealNodes[mAppealNodes[n].mSortedChildren[j]].mStartIndex

\* A Zeroormore node of a sorted tree with two sorted children.
C17_Witness ==
  /\ pc = "PatchWasSucc"
  /\ \E n \in SortedTree :
       /\ IsZeroormore(n) /\ Len(mAppealNodes[n].mSortedChildren) >= 2
       /\ \E i, j \in DOMAIN mAppealNodes[n].mChildren :
            /\ i # j
            /\ mAppealNodes[mAppealNodes[n].mChildren[i]].mAfter \in Succeeded
            /\ mAppealNodes[mAppealNodes[n].mChildren[j]].mAfter \in Succeeded
            /\ mAppealNodes[mAppealNodes[n].mChildren[i]].mStartIndex
                 = mAppealNodes[mAppealNodes[n].mChildren[j]].mStartIndex


\* ------------------------------------------------------------------------
\* C18  A rule that is recorded as failed at the token it is called on, and
\* that is in no recursion group or whose group is done at that token, returns
\* false at once: its appeal node has the status FailWasFailed (so no
\* lookahead verdict was written) and it has no children.
\* ------------------------------------------------------------------------
\* The appeal nodes of the calls of TraverseRuleTable that left
\* TraverseRuleTablePre with the rule recorded as failed.
EnteredFailed ==
  {n \in DOMAIN mAppealNodes : mAppealNodes[n].mPre.after = "FailWasFailed"}

ReturnedAtOnce(n) ==
  /\ mAppealNodes[n].mAfter = "FailWasFailed"
  /\ mAppealNodes[n].mChildren = <<>>
  /\ \A i \in DOMAIN calls : calls[i].node = n => ~calls[i].ret

C18_FailedReturnsAtOnce ==
  abort = "" =>
    \A n \in EnteredFailed :
      (FindRecursionGroup(mAppealNodes[n].mTable) = 0 \/ mAppealNodes[n].mPre.group_done)
        => ReturnedAtOnce(n)

\* C18, the part that holds: outside every recursion group a failure that is
\* on record is returned at once.
C18_OutsideGroups ==
  abort = "" =>
    \A n \in EnteredFailed :
      FindRecursionGroup(mAppealNodes[n].mTable) = 0 => ReturnedAtOnce(n)

C18_Witness ==
  /\ abort = ""
  /\ \E n \in EnteredFailed : FindRecursionGroup(mAppealNodes[n].mTable) = 0

\* ------------------------------------------------------------------------
\* C19  A recursion node that was already traversed in the running instance of
\* a recursion traversal is not descended into again at that token: the call
\* has no children and returns what the node has there, success with the
\* recorded end set or failure.
\* ------------------------------------------------------------------------
\* The returns of TraverseRuleTable for a rule the running instance had
\* already visited.
RepeatVisits ==
  {i \in DOMAIN calls : calls[i].node # 0
                        /\ mAppealNodes[calls[i].node].mPre.node_visited}

C19_RepeatVisitReturnsResult ==
  abort = "" =>
    \A i \in RepeatVisits :
      LET node == mAppealNodes[calls[i].node] IN
      /\ node.mChildren = <<>>
      /\ calls[i].ret = (node.mPre.after \in Succeeded)
      /\ calls[i].ret => Range(calls[i].M) = Range(node.mMatches)

\* C19, the part that holds: the repeat visit never descends, and when the
\* node has succeeded there it returns true with the recorded end set.
C19_RepeatVisitNotDescended ==
  abort = "" =>
    \A i \in RepeatVisits :
      LET node == mAppealNodes[calls[i].node] IN
      /\ node.mChildren = <<>>
      /\ node.mPre.after \in Succeeded =>
           calls[i].ret /\ Range(calls[i].M) = Range(node.mMatches)

\* A repeat visit of a node that has failed at the token, and one of a node
\* that has succeeded there.
C19_Witness ==
  /\ abort = ""
  /\ \E i, j \in RepeatVisits :
       /\ mAppealNodes[calls[i].node].mPre.after = "FailWasFailed"
       /\ mAppealNodes[calls[j].node].mPre.after = "SuccWasSucc"

\* ------------------------------------------------------------------------
\* C20  In the first instance of a recursion traversal the second appearance
\* of the lead node at its own start token returns false, its appeal node
\* has the status Fail2ndOf1st, and the lead node is not put into the failed
\* set at that token.
\* ------------------------------------------------------------------------
\* The returns of TraverseRuleTable for the lead node met again in the first
\* instance of its own traversal, the rule not being on record as failed.
SecondOfFirst ==
  {i \in DOMAIN calls :
     /\ calls[i].node # 0
     /\ IsLeadNode(calls[i].rule)
     /\ mAppealNodes[calls[i].node].mPre.lead_visited
     /\ mAppealNodes[calls[i].node].mPre.instance = "InstanceFirst"
     /\ mAppealNodes[calls[i].node].mPre.after = "AppealStatus_NA"}

C20_SecondAppearanceFails ==
  abort = "" =>
    \A i \in SecondOfFirst :
      /\ ~calls[i].ret
      /\ mAppealNodes[calls[i].node].mAfter = "Fail2ndOf1st"
      /\ ~calls[i].failed

\* C20, the part that holds: the call returns false without descending and
\* without an entry in the failed set.
C20_SecondAppearanceNotRecorded ==
  abort = "" =>
    \A i \in SecondOfFirst :
      /\ ~calls[i].ret
      /\ mAppealNodes[calls[i].node].mChildren = <<>>
      /\ ~calls[i].failed

C20_Witness == abort = "" /\ SecondOfFirst # {}

\* ------------------------------------------------------------------------
\* C21  After ResetFailed(rule, t) the rule is not recorded as failed at t,
\* however often AddFailed(rule, t) was called before in the same top-level
\* parse.  TraverseRuleTableRegular calls ResetFailed(rule, t) when the rule
\* matched at t and nothing is added to the failed set between that and the
\* return of TraverseRuleTable, so the record of the return shows the failed
\* set right after the reset.
\* ------------------------------------------------------------------------
\* The returns of a regular traversal that matched: not of a lead node, whose
\* traversal goes on after the reset, and not of the Identifier and Literal
\* tables.
MatchedRegular ==
  {i \in DOMAIN calls :
     /\ calls[i].ret /\ calls[i].node # 0
     /\ ~IsLeadNode(calls[i].rule)
     /\ calls[i].rule \notin {TblIdentifier, TblLiteral}
     /\ mAppealNodes[calls[i].node].mAfter \in {"Succ", "SuccStillWasSucc"}}

C21_ResetFailedClears == \A i \in MatchedRegular : ~calls[i].failed

C21_Witness ==
  \E i \in MatchedRegular : mAppealNodes[calls[i].node].mPre.after = "FailWasFailed"

\* ------------------------------------------------------------------------
\* Parser::Appeal on its own: the appeal trees are the forests of MaxNodes
\* nodes in which a node's parent is the node before it or none, every node
\* with one of three statuses; rule tables 3 and 4 alternate along the nodes
\* and every node starts at token 0.  The failed set holds token 0 once or
\* twice for both rules, and token 1 for rule 3.
\* ------------------------------------------------------------------------
MaxNodes == 4

AppealStatuses == {"Succ", "FailChildrenFailed", "FailWasFailed"}

InitAppeal ==
  /\ grammar = GCat
  /\ file = <<>>
  /\ pc = "Appeal"
  /\ mCurToken = 0
  /\ mEndOfFile = FALSE
  /\ mActiveTokens = <<>>
  /\ mLine = 0
  /\ gFailed \in {<<<<>>, <<>>, <<1, 0>>, <<0>>>>, <<<<>>, <<>>, <<0, 1, 0>>, <<0, 0>>>>}
  /\ gSucc = <<>>
  /\ \E after \in [1..MaxNodes -> AppealStatuses] :
       \E top \in SUBSET (2..MaxNodes) :
         mAppealNodes =
           [i \in 1..MaxNodes |->
              [AppealNode EXCEPT !.mTable = 3 + (i % 2), !.mAfter = after[i],
                                 !.mParent = IF i = 1 \/ i \in top THEN 0 ELSE i - 1]]
  /\ gSuccTokens = <<>>
  /\ calls = <<>>
  /\ recs = <<>>
  /\ begun = <<>>
  /\ out = <<>>
  /\ mTrees = <<>>
  /\ mRoundsOfPatching = 0
  /\ parseResult = "none"
  /\ abort = ""
  /\ mRecursionAll = <<>>
  /\ mRecDetector = NoDetector

\* One call Appeal(start, root); the trace keeps the arguments and the failed
\* set the call found.
DoAppeal ==
  /\ pc = "Appeal"
  /\ \E start, root \in DOMAIN mAppealNodes :
       \E s \in {Appeal(St, start, root)} :
         /\ gFailed' = s.gFailed
         /\ mAppealNodes' = s.mAppealNodes
         /\ abort' = s.abort
         /\ calls' = <<[start |-> start, root |-> root, gFailed |-> gFailed]>>
         /\ pc' = IF s.abort = "" THEN "Done" ELSE "Aborted"
  /\ UNCHANGED <<grammar, mRecursionAll, mRecDetector, file, mCurToken, mEndOfFile, mActiveTokens,
                 mLine, gSucc, gSuccTokens, recs, begun, out, mTrees,
                 mRoundsOfPatching, parseResult>>

SpecAppeal == InitAppeal /\ [][DoAppeal]_vars

\* ------------------------------------------------------------------------
\* C22  Appeal(start, root), root being above start on the parent chain, takes
\* from the failed set only records (rule, start index) of nodes with status
\* FailChildrenFailed that lie strictly between start and root, and it changes
\* no appeal node.
\* ------------------------------------------------------------------------
RECURSIVE ChainAbove(_, _)
\* The nodes above node n on its parent chain, nearest first.
ChainAbove(nodes, n) ==
  IF nodes[n].mParent = 0 THEN <<>>
  ELSE <<nodes[n].mParent>> \o ChainAbove(nodes, nodes[n].mParent)

\* The nodes strictly between start and root.
Between(nodes, start, root) ==
  LET chain == ChainAbove(nodes, start)
      k     == CHOOSE i \in DOMAIN chain : chain[i] = root
  IN {chain[i] : i \in 1..(k - 1)}

Count(q, x) == Cardinality({i \in DOMAIN q : q[i] = x})

FailedLookAhead ==
  {i \in DOMAIN calls : calls[i].node # 0
                        /\ mAppealNodes[calls[i].node].mAfter = "FailLookAhead"}

\* The token matches an entry of the lookahead set.
LookAheadMatches(la, token) ==
  \/ la = "LA_Identifier" /\ IsIdentifier(token)
  \/ la = "LA_Literal" /\ IsLiteral(token)
  \/ la = token

LookAheadMiss(i) ==
  /\ \A la \in grammar.la[calls[i].rule] :
       ~LookAheadMatches(la, mActiveTokens[calls[i].start + 1])
  /\ Rule(calls[i].rule).mType \notin {"ET_Zeroormore", "ET_Zeroorone"}
  /\ ~calls[i].ret
  /\ calls[i].failed

C23_LookAheadFailsDefinedSet ==
  \A i \in FailedLookAhead : grammar.la[calls[i].rule] # {} /\ LookAheadMiss(i)

\* C23, the part that holds: whatever the size of the set, the rule that the
\* check fails has no entry the token matches and is no ZeroOrMore or ZeroOrOne.
C23_LookAheadFailsOnMiss == \A i \in FailedLookAhead : LookAheadMiss(i)

C23_Witness ==
  \E i \in FailedLookAhead : grammar.la[calls[i].rule] # {}

\* ------------------------------------------------------------------------
\* C24  A Concatenate rule attempted at t starts from the set {t-1}; each
\* child in order is attempted at p+1 for every p of the set, and the set
\* carried on is the set of the ends the child reached from those starts, plus
\* every p when the child is a ZeroOrMore or ZeroOrOne rule; an empty set fails
\* the rule, and the set after the last child is the rule's match set.  The
\* rule that consumed nothing (the set after the last child is {t-1}) is left
\* to C25.
\* ------------------------------------------------------------------------
\* The returns of TraverseRuleTable that went through TraverseConcatenate.
ConcatenateCalls ==
  {i \in DOMAIN calls :
     /\ calls[i].node # 0
     /\ Rule(calls[i].rule).mType = "ET_Concatenate"
     /\ mAppealNodes[calls[i].node].mPre.after \in {"AppealStatus_NA", "FailWasFailed"}
     /\ mAppealNodes[calls[i].node].mAfter \in {"Succ", "FailChildrenFailed"}}

\* The attempts of the child `data` of node n from the token after p.
Attempts(n, data, p) ==
  {c \in Range(mAppealNodes[n].mChildren) :
     /\ mAppealNodes[c].mStartIndex = Inc(p)
     /\ IF data.mType = "DT_Token"
        THEN ~mAppealNodes[c].mIsTable /\ mAppealNodes[c].mToken = data.mToken
        ELSE mAppealNodes[c].mTable = data.mEntry}

\* The ends an attempt reached: those its call returned, for a token the
\* token itself.
EndsOf(c) ==
  IF \E j \in DOMAIN calls : calls[j].node = c
  THEN UNION {Range(calls[k].M) : k \in {j \in DOMAIN calls : calls[j].node = c}}
  ELSE IF mAppealNodes[c].mAfter = "Succ" THEN Range(mAppealNodes[c].mMatches) ELSE {}

RECURSIVE ConcatenateEnds(_, _, _)
\* What the claim says of node n from its child i on, prev being the set the
\* children before have left.  An attempt of a rule table leaves an appeal
\* node, an attempt of a token leaves one when the token matched.
ConcatenateEnds(n, i, prev) ==
  LET data == Rule(mAppealNodes[n].mTable).mData
      ends == UNION {EndsOf(c) : c \in UNION {Attempts(n, data[i], p) : p \in prev}}
                \cup (IF IsZeroxxx(data[i]) THEN prev ELSE {})
  IN IF i > Len(data) THEN [attempted |-> TRUE, ends |-> prev]
     ELSE IF data[i].mType # "DT_Token" /\ \E p \in prev : Attempts(n, data[i], p) = {}
          THEN [attempted |-> FALSE, ends |-> {}]
     ELSE IF ends = {} THEN [attempted |-> TRUE, ends |-> {}]
     ELSE ConcatenateEnds(n, i + 1, ends)

ConcatenateAsClaimed(i) ==
  LET n == calls[i].node
      t == mAppealNodes[n].mStartIndex
      w == ConcatenateEnds(n, 1, {Dec(t)})
  IN /\ w.attempted
     /\ w.ends = {} => ~calls[i].ret
     /\ (w.ends # {} /\ w.ends # {Dec(t)}) => calls[i].ret /\ Range(calls[i].M) = w.ends

C24_ConcatenateEndSets == \A i \in ConcatenateCalls : ConcatenateAsClaimed(i)

\* C24 for the rules that return before the end of the file is met.
C24_BeforeEndOfFile ==
  \A i \in ConcatenateCalls : ~calls[i].eof => ConcatenateAsClaimed(i)

\* A Concatenate that matched with a ZeroOrMore or ZeroOrOne child which
\* carried a token on, and with two ends.
C24_Witness ==
  \E i \in ConcatenateCalls :
    /\ calls[i].ret /\ ~calls[i].eof
    /\ Cardinality(Range(calls[i].M)) >= 2
    /\ \E k \in DOMAIN Rule(calls[i].rule).mData : IsZeroxxx(Rule(calls[i].rule).mData[k])

\* ------------------------------------------------------------------------
\* C25  A Concatenate rule whose children are all ZeroOrMore or ZeroOrOne
\* rules and whose only surviving end is t-1 fails at t, although each child
\* returned true with an empty match.
\* ------------------------------------------------------------------------
\* The Concatenate returns whose rule has only ZeroOrMore/ZeroOrOne children
\* and whose children left the single end t-1.
NoProgressCalls ==
  {i \in ConcatenateCalls :
     LET n    == calls[i].node
         data == Rule(calls[i].rule).mData
         w    == ConcatenateEnds(n, 1, {Dec(mAppealNodes[n].mStartIndex)})
     IN /\ \A k \in DOMAIN data : IsZeroxxx(data[k])
        /\ w.attempted
        /\ w.ends = {Dec(mAppealNodes[n].mStartIndex)}}

\* Every child of the node returned true and reached no end.
EmptyChildren(n) ==
  /\ mAppealNodes[n].mChildren # <<>>
  /\ \A c \in Range(mAppealNodes[n].mChildren) :
       /\ mAppealNodes[c].mAfter = "Succ"
       /\ \A j \in DOMAIN calls : calls[j].node = c => calls[j].ret /\ calls[j].M = <<>>

C25_NoProgressFails ==
  \A i \in NoProgressCalls :
    /\ ~calls[i].ret
    /\ calls[i].M = <<>>
    /\ calls[i].cur = calls[i].start
    /\ mAppealNodes[calls[i].node].mAfter = "FailChildrenFailed"
    /\ calls[i].failed

\* A Concatenate of two ZeroOr children, both of which matched nothing, met
\* before the end of the file.
C25_Witness ==
  \E i \in NoProgressCalls :
    /\ ~calls[i].eof
    /\ Len(Rule(calls[i].rule).mData) >= 2
    /\ EmptyChildren(calls[i].node)

\* ------------------------------------------------------------------------
\* C26  Every attempt of a ZeroOrMore or ZeroOrOne rule returns true, at
\* every token position reached during a parse; an empty end set means that
\* the rule matched nothing.
\* ------------------------------------------------------------------------
\* The returns of TraverseRuleTable for a ZeroOrMore or ZeroOrOne rule.
ZeroxxxCalls ==
  {i \in DOMAIN calls : Rule(calls[i].rule).mType \in {"ET_Zeroormore", "ET_Zeroorone"}}

\* The attempts that went into the rule: the node was new to the token.
FreshCalls ==
  {i \in DOMAIN calls :
     calls[i].node # 0 /\ mAppealNodes[calls[i].node].mPre.after = "AppealStatus_NA"}

ZeroormoreCalls ==
  {i \in FreshCalls : Rule(calls[i].rule).mType = "ET_Zeroormore"}

\* The start indices of the attempts the node made of its child, in the order
\* made.  An attempt of a rule table leaves a child node, an attempt of a
\* token leaves one when the token matched.
ChildStarts(n) ==
  [k \in DOMAIN mAppealNodes[n].mChildren |->
     mAppealNodes[mAppealNodes[n].mChildren[k]].mStartIndex]

C27_NoStartTwice ==
  \A i \in ZeroormoreCalls :
    \A j, k \in DOMAIN ChildStarts(calls[i].node) :
      j # k => ChildStarts(calls[i].node)[j] # ChildStarts(calls[i].node)[k]

\* ------------------------------------------------------------------------
\* C28  Whenever TraverseRuleTable returns true the appeal node it created
\* has a success status, and whenever it returns false after creating a node
\* the node has a fail status.
\* ------------------------------------------------------------------------
AnyFailStatus == FailStatus \cup {"FailNotRightToken"}

\* The returns of TraverseRuleTable that created an appeal node.
NodeCalls == {i \in DOMAIN calls : calls[i].node # 0}

StatusAgrees(i) ==
  IF calls[i].ret THEN calls[i].after \in Succeeded
  ELSE calls[i].after \in AnyFailStatus

C28_StatusAgreesWithReturn == \A i \in NodeCalls : StatusAgrees(i)

\* C28, the part that holds: outside the recursion groups the status agrees
\* with the value returned.
C28_OutsideGroups ==
  \A i \in NodeCalls : FindRecursionGroup(calls[i].rule) = 0 => StatusAgrees(i)

C28_Witness ==
  /\ \E i \in NodeCalls : calls[i].ret /\ calls[i].after = "SuccWasSucc"
  /\ \E i \in NodeCalls : ~calls[i].ret /\ calls[i].after = "FailLookAhead"
  /\ \E i \in NodeCalls : ~calls[i].ret /\ calls[i].after = "FailChildrenFailed"
       /\ FindRecursionGroup(calls[i].rule) = 0

\* ------------------------------------------------------------------------
\* C29  For a sorted Oneof node with final match m and a match set that is
\* not empty, sort-out keeps exactly one child: the first successful child,
\* in the order the alternatives were attempted, whose match set contains m;
\* and it pins the final match m on that child.
\* ------------------------------------------------------------------------
\* The nodes of the sorted tree that SortOutNode hands to SortOutOneof.
SortedOneofs ==
  {n \in SortedTree :
     /\ mAppealNodes[n].mIsTable /\ mAppealNodes[n].mTable # 0
     /\ Rule(mAppealNodes[n].mTable).mType = "ET_Oneof"
     /\ mAppealNodes[n].mAfter = "Succ"
     /\ mAppealNodes[n].mMatches # <<>>
     /\ ~(/\ IsLeadNode(mAppealNodes[n].mTable)
          /\ \A c \in Range(mAppealNodes[n].mChildren) :
               /\ mAppealNodes[c].mIsTable
               /\ mAppealNodes[c].mTable = mAppealNodes[n].mTable)}

\* The places, in the order attempted, of the successful children of n whose
\* match set holds m.
GoodChildren(n, m) ==
  {k \in DOMAIN mAppealNodes[n].mChildren :
     LET c == mAppealNodes[mAppealNodes[n].mChildren[k]]
     IN c.mAfter \in Succeeded /\ InSeq(m, c.mMatches)}

KeepsFirstGood(n) ==
  LET m    == mAppealNodes[n].mFinalMatch
      good == GoodChildren(n, m)
      k    == CHOOSE i \in good : \A j \in good : i <= j
      c    == mAppealNodes[n].mChildren[k]
  IN /\ good # {}
     /\ mAppealNodes[n].mSortedChildren = <<c>>
     /\ mAppealNodes[c].mFinalMatch = m
     /\ mAppealNodes[c].mSorted

SortedConcatenates ==
  {n \in SortedTree :
     /\ mAppealNodes[n].mIsTable /\ mAppealNodes[n].mTable # 0
     /\ Rule(mAppealNodes[n].mTable).mType = "ET_Concatenate"
     /\ mAppealNodes[n].mAfter = "Succ"
     /\ mAppealNodes[n].mMatches # <<>>}

\* The places among the children of n of the nodes that qualify for the slot
\* and the match for which the sorted child c was found: successful, of the
\* rule table or the token of c, and holding the final match pinned on c.
Qualifying(n, c) ==
  {k \in DOMAIN mAppealNodes[n].mChildren :
     LET d == mAppealNodes[mAppealNodes[n].mChildren[k]]
     IN /\ d.mAfter \in Succeeded
        /\ InSeq(mAppealNodes[c].mFinalMatch, d.mMatches)
        /\ d.mIsTable = mAppealNodes[c].mIsTable
        /\ d.mTable = mAppealNodes[c].mTable
        /\ d.mToken = mAppealNodes[c].mToken}

C30_FirstQualifyingWins ==
  pc = "PatchWasSucc" =>
    \A n \in SortedConcatenates : \A c \in Range(mAppealNodes[n].mSortedChildren) :
      \A k \in Qualifying(n, c) :
        \E j \in DOMAIN mAppealNodes[n].mChildren :
          mAppealNodes[n].mChildren[j] = c /\ j <= k

\* C30 as the code has it: the child found is the last that qualifies.
C30_LastQualifyingWins ==
  pc = "PatchWasSucc" =>
    \A n \in SortedConcatenates : \A c \in Range(mAppealNodes[n].mSortedChildren) :
      \A k \in Qualifying(n, c) :
        \E j \in DOMAIN mAppealNodes[n].mChildren :
          mAppealNodes[n].mChildren[j] = c /\ k <= j

\* A sorted child found among two children that qualify.
C30_Witness ==
  /\ pc = "PatchWasSucc"
  /\ \E n \in SortedConcatenates : \E c \in Range(mAppealNodes[n].mSortedChildren) :
       Cardinality(Qualifying(n, c)) >= 2

\* ------------------------------------------------------------------------
\* C31  After sort-out and patching, every sorted rule node that is not an
\* Identifier or Literal leaf and that consumed at least one token (its final
\* match is at or beyond its start index) has at least one sorted child,
\* whatever its success status and whatever its kind.
\* ------------------------------------------------------------------------
\* Patching is over: the sorted tree is the one SimplifySortedTree is given.
Patched == pc = "SimplifySortedTree"

\* The rule nodes of the sorted tree that consumed a token.
ConsumingRuleNodes ==
  {n \in SortedTree :
     /\ mAppealNodes[n].mIsTable
     /\ mAppealNodes[n].mTable \notin {0, TblIdentifier, TblLiteral}
     /\ Signed(mAppealNodes[n].mFinalMatch) >= mAppealNodes[n].mStartIndex}

Simplified == pc = "BuildAST"

\* The rule nodes of the sorted tree with exactly one sorted child.
SingleChildNodes ==
  {n \in SortedTree : mAppealNodes[n].mIsTable /\ Len(mAppealNodes[n].mSortedChildren) = 1}

\* The edge from n to its only sorted child is one SimplifyShrinkEdges keeps.
EdgeHasAction(n) ==
  LET index == GetSortedChildIndex(St, n, mAppealNodes[n].mSortedChildren[1])
  IN index # 0 /\ RuleActionHasElem(mAppealNodes[n].mTable, index)

C32_NoRedundantEdgeLeft ==
  Simplified => \A n \in SingleChildNodes : EdgeHasAction(n)

\* C32 for the nodes that SimplifySortedTree reaches through the parent its
\* child points to.
C32_NoRedundantEdgeUnderOwnParent ==
  Simplified =>
    \A n \in SingleChildNodes :
      mAppealNodes[mAppealNodes[n].mSortedChildren[1]].mParent = n => EdgeHasAction(n)

\* A single-child edge was removed and one with an action was kept.
C32_Witness ==
  /\ Simplified
  /\ \E n \in SingleChildNodes : EdgeHasAction(n)
  /\ \E n \in SortedTree : mAppealNodes[n].mSimplifiedIndex # 0

\* ------------------------------------------------------------------------
\* The index carried by the node that survives the shrinking of a chain.
\* ------------------------------------------------------------------------
\* The nodes that took the place of a removed node under a rule node.
Survivors ==
  {n \in DOMAIN mAppealNodes :
     /\ mAppealNodes[n].mSimplifiedIndex # 0
     /\ mAppealNodes[n].mParent \notin {0, mRootNode}
     /\ n \in Range(mAppealNodes[mAppealNodes[n].mParent].mSortedChildren)}

\* The first removed node of the chain that ended in n: it still names the
\* parent of n as its parent, is no longer among that parent's sorted
\* children, and leads to n through single sorted children.
ChainTo(n) ==
  LET RECURSIVE Leads(_, _)
      Leads(f, k) ==
        /\ k > 0
        /\ Len(mAppealNodes[f].mSortedChildren) = 1
        /\ \/ mAppealNodes[f].mSortedChildren[1] = n
           \/ Leads(mAppealNodes[f].mSortedChildren[1], k - 1)
  IN {f \in DOMAIN mAppealNodes :
        /\ mAppealNodes[f].mParent = mAppealNodes[n].mParent
        /\ mAppealNodes[f].mSimplifiedIndex = 0
        /\ f \notin Range(mAppealNodes[mAppealNodes[n].mParent].mSortedChildren)
        /\ Leads(f, Len(mAppealNodes))}

\* The slots of the rule of `parent` that the node f fits.
FitSlots(parent, f) ==
  LET data == Rule(mAppealNodes[parent].mTable).mData
      c    == mAppealNodes[f]
  IN {i \in DOMAIN data :
        \/ data[i].mType = "DT_Token" /\ IsToken(c) /\ c.mToken = data[i].mToken
        \/ /\ data[i].mType = "DT_Subtable"
           /\ data[i].mEntry \notin {TblIdentifier, TblLiteral}
           /\ IsTable(c) /\ c.mTable = data[i].mEntry}

\* The slot that the k-th sorted child of a Concatenate node occupies once
\* the first removed nodes are put back: the slots of the children rise from
\* left to right.
OccupiedSlot(n) ==
  LET parent == mAppealNodes[n].mParent
      sc     == mAppealNodes[parent].mSortedChildren
      data   == Rule(mAppealNodes[parent].mTable).mData
      back(c) == IF c \in Survivors /\ ChainTo(c) # {}
                 THEN CHOOSE f \in ChainTo(c) : TRUE ELSE c
      ways   == {w \in [DOMAIN sc -> DOMAIN data] :
                   /\ \A k \in DOMAIN sc : w[k] \in FitSlots(parent, back(sc[k]))
                                             \/ FitSlots(parent, back(sc[k])) = {}
                   /\ \A j, k \in DOMAIN sc : j < k => w[j] < w[k]}
  IN {w[k] : w \in ways, k \in {k \in DOMAIN sc : sc[k] = n}}

\* C33, second half: GetSortedChildByIndex on the parent with the index the
\* surviving node carries returns the surviving node.
C33_SurvivorFoundByIndex ==
  Simplified =>
    \A n \in Survivors :
      GetSortedChildByIndex(St, mAppealNodes[n].mParent,
                            mAppealNodes[n].mSimplifiedIndex) = n

\* C33, first half: the surviving node carries a slot index of the first
\* removed node of its chain in the parent of that node.
C33_SurvivorCarriesSlot ==
  Simplified =>
    \A n \in Survivors :
      /\ ChainTo(n) # {}
      /\ \A f \in ChainTo(n) :
           mAppealNodes[n].mSimplifiedIndex \in FitSlots(mAppealNodes[n].mParent, f)

\* C33: the surviving node carries the slot that the first removed node of
\* the chain occupied in its own parent.
C33_SurvivorCarriesOccupiedSlot ==
  Simplified =>
    \A n \in Survivors :
      Rule(mAppealNodes[mAppealNodes[n].mParent].mTable).mType = "ET_Concatenate"
      => OccupiedSlot(n) = {mAppealNodes[n].mSimplifiedIndex}

C33_Witness ==
  /\ Simplified
  /\ \E n \in Survivors :
       /\ n \in SortedTree
       /\ ChainTo(n) # {}
       /\ GetSortedChildByIndex(St, mAppealNodes[n].mParent,
                                mAppealNodes[n].mSimplifiedIndex) = n

\* ------------------------------------------------------------------------
\* The LeadFronNodes of a Oneof lead node.
\* ------------------------------------------------------------------------
\* The first steps of the circles of a left recursion (child indices from 0).
CircleIndices(lr) == {lr.mCircles[i][2] : i \in DOMAIN lr.mCircles}

\* The LeadFronNodes as stated: the token children and the sub-rule children
\* that are not the first step of a circle.
ClaimedLeadFronNodes(rules, lr) ==
  LET data == rules[lr.mRuleTable].mData IN
  {FronNode(0, "FNT_Token", data[i].mToken) :
     i \in {i \in DOMAIN data : data[i].mType = "DT_Token"}}
  \cup {FronNode(0, "FNT_Rule", data[i].mEntry) :
          i \in {i \in DOMAIN data : /\ data[i].mType = "DT_Subtable"
                                     /\ i - 1 \notin CircleIndices(lr)}}

\* The left recursions of the grammar whose lead node is a Oneof rule with
\* token and sub-rule children only.
OneofLeads ==
  {i \in DOMAIN grammar.gLeftRecursions :
     LET rt == grammar.rules[grammar.gLeftRecursions[i].mRuleTable] IN
     /\ rt.mType = "ET_Oneof"
     /\ \A k \in DOMAIN rt.mData : rt.mData[k].mType \in {"DT_Token", "DT_Subtable"}}

\* C34: for a Oneof lead node the LeadFronNodes computed by FindLeadFronNodes
\* are exactly the token children and the sub-rule children whose child index
\* is not the first step of any circle of the recursion.
C34_LeadFronNodesAsClaimed ==
  [][(pc = "InitRecursion" /\ abort' = "") =>
       \A i \in OneofLeads :
         Range(mRecursionAll'[i].mLeadFronNodes)
           = ClaimedLeadFronNodes(grammar.rules, grammar.gLeftRecursions[i])]_vars

\* What FindLeadFronNodes computes for a Oneof lead node: the token children
\* and either every sub-rule child or none of them, and none only when the
\* k-th circle, counted from 0, begins with the child k for some k.
C34_AllSubRulesOrNone ==
  [][(pc = "InitRecursion" /\ abort' = "") =>
       \A i \in OneofLeads :
         LET lr   == grammar.gLeftRecursions[i]
             data == grammar.rules[lr.mRuleTable].mData
             none == \E k \in DOMAIN lr.mCircles : lr.mCircles[k][2] = k - 1
         IN Range(mRecursionAll'[i].mLeadFronNodes)
              = {FronNode(0, "FNT_Token", data[j].mToken) :
                   j \in {j \in DOMAIN data : data[j].mType = "DT_Token"}}
                \cup {FronNode(0, "FNT_Rule", data[j].mEntry) :
                        j \in {j \in DOMAIN data : data[j].mType = "DT_Subtable" /\ ~none}}]_vars

\* InitRecursion has built the descriptor of a Oneof lead node that has a
\* token child and a sub-rule child on a circle.
C34_Witness ==
  /\ pc = "ParseStmt"
  /\ \E i \in DOMAIN mRecursionAll :
       /\ grammar.rules[mRecursionAll[i].mLeadNode].mType = "ET_Oneof"
       /\ \E f \in Range(mRecursionAll[i].mLeadFronNodes) : f.mType = "FNT_Token"
       /\ \E f \in Range(mRecursionAll[i].mLeadFronNodes) : f.mType = "FNT_Rule"

\* ------------------------------------------------------------------------
\* The FronNode lists of a Recursion and the circles that index them.
\* ------------------------------------------------------------------------
\* C39: for every recursion with mNum circles, Recursion::Init has allocated
\* a FronNode list for each circle index 0..mNum-1 before FindFronNodes(i)
\* reads list i, so no FindFronNodes call indexes past the allocated lists,
\* whatever the number of recursions (gLeftRecursionsNum) is.
C39_ListForEveryCircle ==
  [][pc = "InitRecursion" =>
       \A i \in DOMAIN mRecursionAll' :
         Len(grammar.gLeftRecursions[i].mCircles) <= Len(mRecursionAll'[i].mFronNodes)]_vars

\* What Init allocates: one list per left recursion of the grammar, whatever
\* the number of circles of this recursion is.
C39_ListPerRecursion ==
  [][pc = "InitRecursion" =>
       \A i \in DOMAIN mRecursionAll' :
         Len(mRecursionAll'[i].mFronNodes) = Len(grammar.gLeftRecursions)]_vars

\* A Recursion has been built whose circles each have their list.
C39_Witness ==
  /\ pc = "ParseStmt"
  /\ \E i \in DOMAIN mRecursionAll :
       /\ Len(grammar.gLeftRecursions[i].mCircles) = Len(mRecursionAll[i].mFronNodes)
       /\ \E k \in DOMAIN mRecursionAll[i].mFronNodes : mRecursionAll[i].mFronNodes[k] # <<>>

\* ------------------------------------------------------------------------
\* The recursion detector (recdetect): a depth-first traversal of the rule
\* tables from the top tables; a table met again while in process closes a
\* recursion, whose path is read off the traversal tree.
\* ------------------------------------------------------------------------
IsInProcess(d, t) == InSeq(t, d.mInProcess)
IsDone(d, t)      == InSeq(t, d.mDone)

\* RuleFindChild: the index, from 0, of the child rule in the parent rule, or
\* -1 when the parent has no such child.
RuleFindChild(rules, parent, child) ==
  LET ids == {i \in DOMAIN rules[parent].mData :
                /\ rules[parent].mData[i].mType = "DT_Subtable"
                /\ rules[parent].mData[i].mEntry = child}
  IN IF ids = {} THEN -1 ELSE (CHOOSE i \in ids : \A j \in ids : i <= j) - 1

\* RecDetector::FindOrCreateRecursion: the index of the Recursion of `rule`.
FindOrCreateRecursion(d, rule) ==
  LET k == FirstIndex([i \in DOMAIN d.mRecursions |-> d.mRecursions[i].mRuleTable], {rule})
  IN IF k # 0 THEN [d |-> d, rec |-> k]
     ELSE [d   |-> [d EXCEPT !.mRecursions = Append(@, [mRuleTable |-> rule, mPaths |-> <<>>])],
           rec |-> Len(d.mRecursions) + 1]

\* RecDetector::AddRule2Recursion
AddRule2Recursion(d, rule, rec) ==
  LET k == FirstIndex([i \in DOMAIN d.mRule2Recursions |-> d.mRule2Recursions[i].mRule],
                      {rule})
      d1 == IF k # 0 THEN d
            ELSE [d EXCEPT !.mRule2Recursions = Append(@, [mRule |-> rule, mRecursions |-> <<>>])]
      map == IF k # 0 THEN k ELSE Len(d1.mRule2Recursions)
  IN IF InSeq(rec, d1.mRule2Recursions[map].mRecursions) THEN d1
     ELSE [d1 EXCEPT !.mRule2Recursions[map].mRecursions = Append(@, rec)]

\* RecDetector::AddRecursion: there is a back edge from the tree node p to the
\* first appearance of rt above it.  s: [d, abort]
AddRecursion(s, rules, rt, p) ==
  LET d == s.d
      RECURSIVE Up(_, _)
      Up(node, l) ==
        IF node = 0 THEN [node_list |-> l, target |-> 0]
        ELSE IF d.mTree[node].mData = rt THEN [node_list |-> l, target |-> node]
        ELSE Up(d.mTree[node].mParent, Append(l, d.mTree[node].mData))
      u     == Up(p, <<rt>>)
      down  == Reverse(u.node_list)
      path  == [i \in DOMAIN down |->
                  RuleFindChild(rules, IF i = 1 THEN rt ELSE down[i - 1], down[i])]
      fc    == FindOrCreateRecursion(d, rt)
      d1    == [fc.d EXCEPT !.mRecursions[fc.rec].mPaths = Append(@, path)]
      RECURSIVE Map(_, _)
      Map(dd, i) == IF i > Len(down) THEN dd
                    ELSE Map(AddRule2Recursion(dd, down[i], fc.rec), i + 1)
  IN IF u.target = 0 THEN [s EXCEPT !.abort = "AddRecursion: target"]
     ELSE IF \E i \in DOMAIN path : path[i] < 0
     THEN [s EXCEPT !.abort = "Cannot find child rule in parent rule."]
     ELSE [s EXCEPT !.d = Map(d1, 1)]

\* RecDetector::DetectRuleTable with DetectOneof, DetectZeroormore and
\* DetectConcatenate (DetectChildren: the loop over the entries of the rule,
\* i from 1).  s: [d, abort]; p: the tree node of the parent, 0 for none.
RECURSIVE DetectRuleTable(_, _, _, _)
RECURSIVE DetectChildren(_, _, _, _, _)
DetectChildren(s, rules, rule_table, p, i) ==
  LET type == rules[rule_table].mType
      data == rules[rule_table].mData[i]
      last == IF type \in {"ET_Oneof", "ET_Concatenate"}
              THEN Len(rules[rule_table].mData) ELSE 1
      go   == /\ data.mType = "DT_Subtable"
              /\ ~(type = "ET_Concatenate" /\ i > 1 /\ IsInProcess(s.d, data.mEntry))
  IN IF s.abort # "" \/ i > last THEN s
     ELSE DetectChildren(IF go THEN DetectRuleTable(s, rules, data.mEntry, p) ELSE s,
                         rules, rule_table, p, i + 1)

DetectRuleTable(s, rules, rt, p) ==
  LET type == rules[rt].mType
      s1   == [s EXCEPT !.d.mInProcess = Append(@, rt),
                        !.d.mTree = Append(@, [mData |-> rt, mParent |-> p]),
                        !.d.traversed = Append(@, rt)]
      node == Len(s1.d.mTree)
      s2   == CASE type \in {"ET_Oneof", "ET_Concatenate"} ->
                     DetectChildren(s1, rules, rt, node, 1)
                [] type \in {"ET_Data", "ET_Zeroorone", "ET_Zeroormore"} ->
                     IF Len(rules[rt].mData) # 1
                     THEN [s1 EXCEPT !.abort = "zeroormore node has more than one elements?"]
                     ELSE DetectChildren(s1, rules, rt, node, 1)
                [] OTHER -> s1
      inp  == s2.d.mInProcess
  IN IF s.abort # "" \/ IsDone(s.d, rt) THEN s
     ELSE IF IsInProcess(s.d, rt) THEN AddRecursion(s, rules, rt, p)
     ELSE IF s2.abort # "" THEN s2
     ELSE IF ~IsInProcess(s2.d, rt) THEN [s2 EXCEPT !.abort = "IsInProcess(rt)"]
     ELSE IF inp[Len(inp)] # rt THEN [s2 EXCEPT !.abort = "back == rt"]
     ELSE IF IsDone(s2.d, rt) THEN [s2 EXCEPT !.abort = "!IsDone(rt)"]
     ELSE [s2 EXCEPT !.d.mInProcess = SubSeq(inp, 1, Len(inp) - 1),
                     !.d.mDone = Append(@, rt)]

\* The rule tables of the grammars the detector is run on: three tables, each
\* a Oneof or a Concatenate of two different entries or a Zeroorone or
\* Zeroormore of one, an entry being the token 'x' or one of the tables.
DetectTables  == {3, 4, 5}
DetectEntries == {Tok("x")} \cup {Sub(t) : t \in DetectTables}
DetectRules ==
  {RT(type, <<p[1], p[2]>>, {}, <<>>) :
     type \in {"ET_Oneof", "ET_Concatenate"},
     p \in {q \in DetectEntries \X DetectEntries : q[1] # q[2]}}
  \cup {RT(type, <<a>>, {}, <<>>) :
          type \in {"ET_Zeroorone", "ET_Zeroormore"}, a \in DetectEntries}

GDetect(r3, r4, r5) ==
  [name   |-> "detect",
   rules  |-> << Leaf, Leaf, r3, r4, r5 >>,
   top    |-> <<3, 4>>,
   la     |-> << {}, {}, {}, {}, {} >>,
   lead   |-> {},
   groups |-> << >>,
   gLeftRecursions |-> << >>,
   files  |-> {<<>>}]

\* The detector is constructed on the rule tables; Detect() has not run.
InitDetect ==
  /\ grammar \in {GDetect(r3, r4, r5) : r3, r4, r5 \in DetectRules}
  /\ file = <<>>
  /\ pc = "Detect"
  /\ mCurToken = 0
  /\ mEndOfFile = FALSE
  /\ mActiveTokens = <<>>
  /\ mLine = 0
  /\ gFailed = <<>>
  /\ gSucc = <<>>
  /\ mAppealNodes = <<>>
  /\ gSuccTokens = <<>>
  /\ calls = <<>>
  /\ recs = <<>>
  /\ begun = <<>>
  /\ out = <<>>
  /\ mTrees = <<>>
  /\ mRoundsOfPatching = 0
  /\ parseResult = "none"
  /\ abort = ""
  /\ mRecursionAll = <<>>
  /\ mRecDetector = NoDetector

\* One round of the loop of RecDetector::Detect: the next top table.
DoDetect ==
  /\ pc = "Detect"
  /\ LET i == mRecDetector.top + 1
         s == DetectRuleTable([d |-> [mRecDetector EXCEPT !.mInProcess = <<>>,
                                                         !.mTree = <<>>, !.top = i],
                               abort |-> ""],
                              grammar.rules, grammar.top[i], 0)
     IN /\ mRecDetector' = s.d
        /\ abort' = s.abort
        /\ pc' = IF s.abort # "" THEN "Aborted"
                 ELSE IF i = Len(grammar.top) THEN "Detected" ELSE "Detect"
  /\ UNCHANGED <<grammar, mRecursionAll, file, mCurToken, mEndOfFile, mActiveTokens,
                 mLine, gFailed, gSucc, mAppealNodes, gSuccTokens, calls, recs, begun,
                 out, mTrees, mRoundsOfPatching, parseResult>>

SpecDetect == InitDetect /\ [][DoDetect]_vars

\* ------------------------------------------------------------------------
\* What the detector records, against the loops of the rule tables.
\* ------------------------------------------------------------------------
\* An entry that can match nothing.
MaybeZero(e) ==
  /\ e.mType = "DT_Subtable"
  /\ Rule(e.mEntry).mType \in {"ET_Zeroorone", "ET_Zeroormore"}

\* The entry i (from 1) of the rule t is where a match of t may begin.
LeftEntry(t, i) ==
  Rule(t).mType = "ET_Concatenate" => \A j \in 1..(i - 1) : MaybeZero(Rule(t).mData[j])

\* t -> u: u is a sub-table of t where a match of t may begin.
LeftEdge(t, u) ==
  \E i \in DOMAIN Rule(t).mData :
    Rule(t).mData[i] = Sub(u) /\ LeftEntry(t, i)

\* The tables that Detect() can reach from a top table.
DetectReach ==
  LET step(S) == S \cup {u \in DetectTables :
                           \E t \in S : \E i \in DOMAIN Rule(t).mData : Rule(t).mData[i] = Sub(u)}
  IN step(step(step(Range(grammar.top))))

\* A loop is written from its smallest table.
Canon(q) ==
  LET k == CHOOSE i \in DOMAIN q : \A j \in DOMAIN q : q[i] <= q[j]
  IN [i \in DOMAIN q |-> q[((k + i - 2) % Len(q)) + 1]]

\* The loops of left edges among the reachable tables.
LeftLoops ==
  {q \in UNION {[1..n -> DetectReach] : n \in 1..Cardinality(DetectTables)} :
     /\ \A i, j \in DOMAIN q : i # j => q[i] # q[j]
     /\ \A i \in DOMAIN q : LeftEdge(q[i], q[(i % Len(q)) + 1])
     /\ q = Canon(q)}

\* The tables a recorded path goes through, from the lead table.
PathTables(lead, path) ==
  LET RECURSIVE Walk(_, _)
      Walk(t, i) == IF i >= Len(path) THEN <<t>>
                    ELSE <<t>> \o Walk(Rule(t).mData[path[i] + 1].mEntry, i + 1)
  IN Walk(lead, 1)

\* The recorded paths: <<recursion, path>> indices.
RecordedPaths ==
  UNION {{<<r, k>> : k \in DOMAIN mRecDetector.mRecursions[r].mPaths} :
           r \in DOMAIN mRecDetector.mRecursions}

RecordedLoop(rk) ==
  Canon(PathTables(mRecDetector.mRecursions[rk[1]].mRuleTable,
                   mRecDetector.mRecursions[rk[1]].mPaths[rk[2]]))

Detected == pc = "Detected"

\* C35, first part: the detector traverses each rule table at most once.
C35_TraversedAtMostOnce ==
  \A i, j \in DOMAIN mRecDetector.traversed :
    mRecDetector.traversed[i] = mRecDetector.traversed[j] => i = j

\* C35, second part: no loop is recorded twice.
C35_NoLoopTwice ==
  Detected =>
    \A a, b \in RecordedPaths : RecordedLoop(a) = RecordedLoop(b) => a = b

\* C35: the detector records exactly one recursion path for every loop of
\* rule tables reachable from a top table: none is recorded twice and none is
\* left unrecorded, whatever the order of the children.
C35_EveryLoopOnce ==
  Detected =>
    \A q \in LeftLoops : Cardinality({rk \in RecordedPaths : RecordedLoop(rk) = q}) = 1

\* Detect() is through, on tables with a loop of two tables or more, and the
\* loop is recorded.
C35_Witness ==
  /\ Detected
  /\ \E rk \in RecordedPaths : Len(RecordedLoop(rk)) >= 2 /\ RecordedLoop(rk) \in LeftLoops
  /\ Len(mRecDetector.traversed) = Cardinality(DetectTables)

\* C36: every recursion path the detector records is a left recursion: at
\* each step through a Concatenate rule, the child followed is the first
\* element of the rule or is preceded only by elements that can match nothing.
C36_RecordedPathsAreLeft ==
  Detected =>
    \A rk \in RecordedPaths :
      LET lead == mRecDetector.mRecursions[rk[1]].mRuleTable
          path == mRecDetector.mRecursions[rk[1]].mPaths[rk[2]]
          tabs == PathTables(lead, path)
      IN \A i \in DOMAIN path : LeftEntry(tabs[i], path[i] + 1)

\* The paths recorded through a Concatenate rule from its first element are
\* left recursions, and a Concatenate rule never closes a path itself from a
\* later element.
C36_BackEdgeFromFirstElement ==
  Detected =>
    \A rk \in RecordedPaths :
      LET lead == mRecDetector.mRecursions[rk[1]].mRuleTable
          path == mRecDetector.mRecursions[rk[1]].mPaths[rk[2]]
          tabs == PathTables(lead, path)
      IN Rule(tabs[Len(path)]).mType = "ET_Concatenate" => path[Len(path)] = 0

\* A path through the first element of a Concatenate rule is recorded.
C36_Witness ==
  /\ Detected
  /\ \E rk \in RecordedPaths :
       LET lead == mRecDetector.mRecursions[rk[1]].mRuleTable
           path == mRecDetector.mRecursions[rk[1]].mPaths[rk[2]]
           tabs == PathTables(lead, path)
       IN /\ \E i \in DOMAIN path : Rule(tabs[i]).mType = "ET_Concatenate"
          /\ \A i \in DOMAIN path : LeftEntry(tabs[i], path[i] + 1)

\* ------------------------------------------------------------------------
\* Pass nodes and the constructors that flatten them (ast.cpp)
\* ------------------------------------------------------------------------
IsPass(t) == t.mKind = "NK_Pass"

\* The leaves of a tree of Pass nodes, from left to right.
RECURSIVE PassLeaves(_)
PassLeaves(t) ==
  IF IsPass(t)
  THEN LET RECURSIVE Cat(_)
           Cat(i) == IF i > Len(t.mChildren) THEN <<>>
                     ELSE PassLeaves(t.mChildren[i]) \o Cat(i + 1)
       IN Cat(1)
  ELSE <<t>>

\* ExprListNode::Merge: the expressions added to the list, in order.
RECURSIVE ExprListMerge(_, _)
ExprListMerge(mExprs, n) ==
  IF n.mKind = "NK_ExprList" THEN mExprs \o n.mExprs
  ELSE IF IsPass(n)
  THEN LET RECURSIVE Children(_, _)
           Children(l, i) == IF i > Len(n.mChildren) THEN l
                             ELSE Children(ExprListMerge(l, n.mChildren[i]), i + 1)
       IN Children(mExprs, 1)
  ELSE Append(mExprs, n)

\* VarListNode::Merge.  v: [mVars, abort]
RECURSIVE VarListMerge(_, _)
VarListMerge(v, n) ==
  IF v.abort # "" THEN v
  ELSE IF n.mKind = "NK_Identifier" THEN [v EXCEPT !.mVars = Append(@, n)]
  ELSE IF n.mKind = "NK_VarList" THEN [v EXCEPT !.mVars = @ \o n.mVars]
  ELSE IF IsPass(n)
  THEN LET RECURSIVE Children(_, _)
           Children(l, i) == IF i > Len(n.mChildren) THEN l
                             ELSE Children(VarListMerge(l, n.mChildren[i]), i + 1)
       IN Children(v, 1)
  ELSE [v EXCEPT !.abort = "VarListNode cannot merge a non-identifier or non-varlist node"]

\* The loop of SwitchCaseNode::AddLabel, SwitchCaseNode::AddStmt and
\* SwitchNode::AddCase: the front of working_list is taken off; the children
\* of a Pass node go to the back of working_list, any other node goes to the
\* back of the list being built, after MASSERT(t->Is...()) when `is` is a kind.
RECURSIVE WorkingList(_, _, _)
WorkingList(working_list, l, is) ==
  IF working_list = <<>> \/ l.abort # "" THEN l
  ELSE LET t == Head(working_list) IN
       IF IsPass(t) THEN WorkingList(Tail(working_list) \o t.mChildren, l, is)
       ELSE IF is # "" /\ t.mKind # is
       THEN [l EXCEPT !.abort = "t->Is" \o is]
       ELSE WorkingList(Tail(working_list), [l EXCEPT !.list = Append(@, t)], is)

AddLabel(t) == WorkingList(<<t>>, [list |-> <<>>, abort |-> ""], "NK_SwitchLabel")
AddStmt(t)  == WorkingList(<<t>>, [list |-> <<>>, abort |-> ""], "")
AddCase(t)  == WorkingList(<<t>>, [list |-> <<>>, abort |-> ""], "NK_SwitchCase")

\* FunctionNode::CleanUp.  b: [mChildren, prev, next, abort], the children of
\* mBody and the two locals that live across the rounds of while(changed);
\* num is read once, before the loop; NullTree is the NULL pointer.
\* mChildren.Remove(tree), LocateValue(v), InsertBefore(c) and InsertAfter(c)
\* take out the node, set the cursor of the list on v and put c before or
\* after the cursor, which stays.  When v is not in the list the cursor is
\* where `cursor` says: 0 for nowhere (a fault at the insertion), or an index.
RECURSIVE CleanUpLoop(_, _, _)
CleanUpLoop(b, num, cursor) ==
  LET passes == {i \in 1..num : i <= Len(b.mChildren) /\ IsPass(b.mChildren[i])}
      outside == {i \in 1..num : i > Len(b.mChildren)
                                 /\ \A j \in 1..(i - 1) : j \notin passes}
      i        == CHOOSE k \in passes : \A j \in passes : k <= j
      passnode == b.mChildren[i]
      next     == IF i = 1 THEN b.mChildren[2] ELSE b.next
      prev     == IF i = 1 THEN b.prev ELSE b.mChildren[i - 1]
      removed  == SubSeq(b.mChildren, 1, i - 1)
                    \o SubSeq(b.mChildren, i + 1, Len(b.mChildren))
      anchor   == IF next # NullTree THEN next ELSE prev
      at       == IF InSeq(anchor, removed) THEN FirstIndex(removed, {anchor})
                  ELSE IF cursor > Len(removed) THEN Len(removed) ELSE cursor
      inserted == IF next # NullTree
                  THEN SubSeq(removed, 1, at - 1) \o passnode.mChildren
                         \o SubSeq(removed, at, Len(removed))
                  ELSE SubSeq(removed, 1, at) \o passnode.mChildren
                         \o SubSeq(removed, at + 1, Len(removed))
  IN IF b.abort # "" THEN b
     ELSE IF outside # {} THEN [b EXCEPT !.abort = "GetChildAtIndex: no such child"]
     ELSE IF passes = {} THEN b
     ELSE IF num = 1
     THEN CleanUpLoop([b EXCEPT !.mChildren = passnode.mChildren], num, cursor)
     ELSE IF at = 0
     THEN [b EXCEPT !.mChildren = removed, !.prev = prev, !.next = next,
                    !.abort = "mChildren.Insert: no cursor"]
     ELSE CleanUpLoop([b EXCEPT !.mChildren = inserted, !.prev = prev, !.next = next],
                      num, cursor)

CleanUp(mBody, cursor) ==
  IF Len(mBody.mChildren) = 0 THEN [mChildren |-> <<>>, abort |-> ""]
  ELSE LET b == CleanUpLoop([mChildren |-> mBody.mChildren, prev |-> NullTree,
                             next |-> NullTree, abort |-> ""],
                            Len(mBody.mChildren), cursor)
       IN [mChildren |-> b.mChildren, abort |-> b.abort]

\* The trees handed to these constructors: leaves of one kind with different
\* names, Pass nodes of two or three leaves (a Pass node is built for the
\* several children of a rule with no action), and Pass nodes of two such
\* trees; the bodies of functions: blocks of up to three such children.
PassNames  == {"a", "b", "c", "d", "e"}
LeafKinds  == {"NK_Identifier", "NK_SwitchLabel", "NK_SwitchCase"}
PassSizes  == {2, 3}
BodySizes  == {0, 1, 2, 3}
Cursors    == {0, 1, 2}
DistinctLeaves(t) ==
  LET l == PassLeaves(t) IN \A i, j \in DOMAIN l : l[i] = l[j] => i = j
FlatTrees(kind) ==
  LET leaves == {[mKind |-> kind, mName |-> n] : n \in PassNames} IN
  leaves \cup {t \in {BuildPassNode(q) : q \in UNION {[1..n -> leaves] : n \in PassSizes}} :
                 DistinctLeaves(t)}
NestedTrees(kind) ==
  {t \in {BuildPassNode(<<x, y>>) : x, y \in FlatTrees(kind)} :
     DistinctLeaves(t) /\ \E i \in 1..2 : IsPass(t.mChildren[i])}
Block(children) == [mKind |-> "NK_Block", mChildren |-> children]
Bodies(kind) ==
  {b \in {Block(q) : q \in UNION {[1..n -> FlatTrees(kind)] : n \in BodySizes}} :
     DistinctLeaves(BuildPassNode(b.mChildren))}
  \cup {Block(<<t>>) : t \in NestedTrees(kind)}
  \cup {Block(<<t, [mKind |-> "NK_Literal", mName |-> "f"]>>) : t \in NestedTrees(kind)}

\* A tree is built and is about to be handed to one of the constructors.
InitAst ==
  /\ grammar = GCat
  /\ file = <<>>
  /\ pc = "Ast"
  /\ mCurToken = 0
  /\ mEndOfFile = FALSE
  /\ mActiveTokens = <<>>
  /\ mLine = 0
  /\ gFailed = <<>>
  /\ gSucc = <<>>
  /\ mAppealNodes = <<>>
  /\ gSuccTokens = <<>>
  /\ calls = <<>>
  /\ recs = <<>>
  /\ begun = <<>>
  /\ out = <<>>
  /\ mTrees \in {<<t>> : t \in Bodies("NK_Identifier") \cup UNION {FlatTrees(k) \cup NestedTrees(k) : k \in LeafKinds}}
  /\ mRoundsOfPatching = 0
  /\ parseResult = "none"
  /\ abort = ""
  /\ mRecursionAll = <<>>
  /\ mRecDetector = NoDetector

\* The tree becomes `node`, built by the constructor `op`.
Built(op, node, fault) ==
  /\ mTrees' = <<node>>
  /\ abort' = fault
  /\ pc' = op
  /\ UNCHANGED <<grammar, mRecursionAll, mRecDetector, file, mCurToken, mEndOfFile,
                 mActiveTokens, mLine, gFailed, gSucc, mAppealNodes, gSuccTokens, calls,
                 recs, begun, out, mRoundsOfPatching, parseResult>>

\* The block is the body of a function: FunctionNode::CleanUp.
DoCleanUp ==
  /\ pc = "Ast" /\ mTrees[1].mKind = "NK_Block"
  /\ \E cursor \in Cursors :
       LET b == CleanUp(mTrees[1], cursor) IN Built("CleanUp", Block(b.mChildren), b.abort)

DoAddLabel ==
  /\ pc = "Ast" /\ mTrees[1].mKind # "NK_Block"
  /\ LET l == AddLabel(mTrees[1])
     IN Built("AddLabel", [mKind |-> "NK_SwitchCase", mLabels |-> l.list, mStmts |-> <<>>],
              l.abort)

DoAddStmt ==
  /\ pc = "Ast" /\ mTrees[1].mKind # "NK_Block"
  /\ LET l == AddStmt(mTrees[1])
     IN Built("AddStmt", [mKind |-> "NK_SwitchCase", mLabels |-> <<>>, mStmts |-> l.list],
              l.abort)

DoAddCase ==
  /\ pc = "Ast" /\ mTrees[1].mKind # "NK_Block"
  /\ LET l == AddCase(mTrees[1])
     IN Built("AddCase", [mKind |-> "NK_Switch", mCases |-> l.list], l.abort)

DoExprListMerge ==
  /\ pc = "Ast" /\ mTrees[1].mKind # "NK_Block"
  /\ Built("ExprListMerge",
           [mKind |-> "NK_ExprList", mExprs |-> ExprListMerge(<<>>, mTrees[1])], "")

DoVarListMerge ==
  /\ pc = "Ast" /\ mTrees[1].mKind # "NK_Block"
  /\ LET v == VarListMerge([mVars |-> <<>>, abort |-> ""], mTrees[1])
     IN Built("VarListMerge", [mKind |-> "NK_VarList", mVars |-> v.mVars], v.abort)

NextAst ==
  \/ DoCleanUp
  \/ DoAddLabel
  \/ DoAddStmt
  \/ DoAddCase
  \/ DoExprListMerge
  \/ DoVarListMerge

SpecAst == InitAst /\ [][NextAst]_vars

\* ------------------------------------------------------------------------
\* C37: after FunctionNode::CleanUp returns, no direct child of the function
\* body is a Pass node: each Pass node has been replaced, at its position, by
\* its children in order, and all other statements keep their relative order.
\* ------------------------------------------------------------------------
C37_BodyFlattened ==
  [][(pc = "Ast" /\ pc' = "CleanUp" /\ abort' = "") =>
       mTrees'[1].mChildren = PassLeaves(BuildPassNode(mTrees[1].mChildren))]_vars

\* C37, first part: no direct child of the body is a Pass node.
C37_NoPassChild ==
  (pc = "CleanUp" /\ abort = "") =>
    \A i \in DOMAIN mTrees[1].mChildren : ~IsPass(mTrees[1].mChildren[i])

\* What CleanUp does do: a body with one Pass node among its children, and no
\* Pass node inside that one, has the node replaced by its children in order.
C37_OnePassFlattened ==
  [][(/\ pc = "Ast" /\ pc' = "CleanUp"
      /\ LET q == mTrees[1].mChildren IN
         /\ Cardinality({i \in DOMAIN q : IsPass(q[i])}) = 1
         /\ \A i \in DOMAIN q :
              IsPass(q[i]) => \A k \in DOMAIN q[i].mChildren : ~IsPass(q[i].mChildren[k]))
     => /\ abort' = ""
        /\ mTrees'[1].mChildren = PassLeaves(BuildPassNode(mTrees[1].mChildren))]_vars

\* CleanUp has flattened the body of a function with a statement and a Pass
\* node.
C37_Witness ==
  /\ pc = "CleanUp" /\ abort = ""
  /\ Len(mTrees[1].mChildren) = 4
  /\ \A i \in DOMAIN mTrees[1].mChildren : ~IsPass(mTrees[1].mChildren[i])

\* ------------------------------------------------------------------------
\* C38: flattening nested Pass nodes into a switch (SwitchNode::AddCase,
\* SwitchCaseNode::AddLabel, SwitchCaseNode::AddStmt) keeps the leaves in
\* their left-to-right source order, the depth-first order of the Pass tree,
\* exactly as VarListNode::Merge and ExprListNode::Merge do.
\* ------------------------------------------------------------------------
SwitchList(t) ==
  CASE t.mKind = "NK_Switch" -> t.mCases
    [] t.mKind = "NK_SwitchCase" -> t.mLabels \o t.mStmts
    [] t.mKind = "NK_ExprList" -> t.mExprs
    [] t.mKind = "NK_VarList" -> t.mVars
    [] OTHER -> <<>>

C38_SwitchKeepsOrder ==
  [][(pc = "Ast" /\ pc' \in {"AddCase", "AddLabel", "AddStmt"} /\ abort' = "") =>
       SwitchList(mTrees'[1]) = PassLeaves(mTrees[1])]_vars

\* The two Merge functions give the depth-first order.
C38_MergeKeepsOrder ==
  [][(pc = "Ast" /\ pc' \in {"ExprListMerge", "VarListMerge"} /\ abort' = "") =>
       SwitchList(mTrees'[1]) = PassLeaves(mTrees[1])]_vars

\* What the switch constructors give: the leaves level by level, which is the
\* source order when no Pass node stands to the left of a leaf less deep.
C38_SwitchSameLeaves ==
  [][(pc = "Ast" /\ pc' \in {"AddCase", "AddLabel", "AddStmt"} /\ abort' = "") =>
       /\ Range(SwitchList(mTrees'[1])) = Range(PassLeaves(mTrees[1]))
       /\ Len(SwitchList(mTrees'[1])) = Len(PassLeaves(mTrees[1]))
       /\ (IsPass(mTrees[1]) =>
              \A i \in DOMAIN mTrees[1].mChildren : ~IsPass(mTrees[1].mChildren[i]))
            => SwitchList(mTrees'[1]) = PassLeaves(mTrees[1])]_vars

\* A Pass node of three leaves or more went through ExprListNode::Merge.
C38_Witness ==
  /\ pc = "ExprListMerge" /\ abort = ""
  /\ Len(mTrees[1].mExprs) >= 3
=============================================================================
